---- MODULE Spec2Model ----
(***************************************************************************)
(* osx-cleaner: the cleanup engines (core/cleaner.rs and                   *)
(* core/cleaner_orchestrator.rs with core/cleaners/) and the uninstaller   *)
(* (core/uninstaller.rs) over a small model of the filesystem.             *)
(*                                                                         *)
(* A path is the sequence of its components below the root directory       *)
(* (<<"Library", "Caches">> is /Library/Caches).                           *)
(***************************************************************************)
EXTENDS Integers, Sequences, FiniteSets, Bags, TLC

VARIABLES
    engine,      \* "cleaner" (core/cleaner.rs), "orchestrator"
                 \* (core/cleaner_orchestrator.rs) or "uninstall"
    uninstall_name, \* uninstall: the name given on the command line
    dry_run,     \* the --dry-run flag
    ignore,      \* the --ignore list, a sequence of strings
    tmpdir,      \* the TMPDIR environment variable, a path or NoPath
    prot,        \* objects whose removal the system refuses
    noread,      \* directories whose entries cannot be read
    fs,          \* the filesystem: existing object -> [kind, size, target]
    fs0,         \* the filesystem when the command started
    removed,     \* objects the command has removed so far
    recreated,   \* how many times another process has put an object back
    candidates,  \* the candidates the categories have found so far
    info_logs,   \* uninstall: the "Would delete" and "Deleting" lines
    phase,       \* position of the command
    ci,          \* cleaner.rs: index of the category being cleaned
    task,        \* the parallel workers of the current batch
    paths_explicitly_ignored, \* candidates the ignore filter excluded
    ignored_paths_logs,
    successful_entries,
    failed_entries,
    skipped_during_size_check,
    warning_logs,
    total_freed,
    all_successful_entries_map,
    large_files_to_display_in_dry_run_map,
    total_row,   \* the size shown in the appended "Total" row, -1 before
    runs,        \* how many times the command has been started
    previous_run, \* what the run before this one reported, <<>> in the first
    shown,       \* the sizes formatted so far: formatter -> [bytes, text]
    held,        \* clean_my_mac's mutexes: mutex -> the thread holding it
    thread       \* clean_my_mac's threads: thread -> what it has left to do

vars == <<engine, uninstall_name, dry_run, ignore, tmpdir, prot, noread, fs, fs0, removed,
          recreated, candidates, info_logs, phase, ci, task, paths_explicitly_ignored, ignored_paths_logs,
          successful_entries, failed_entries, skipped_during_size_check,
          warning_logs, total_freed, all_successful_entries_map,
          large_files_to_display_in_dry_run_map, total_row, runs, previous_run,
          shown, held, thread>>

\* ---------------------------------------------------------------- bounds
MaxSize == 2        \* largest size of a file whose size Init varies
MaxLinks == 2       \* symbolic links followed while resolving one path
MaxRecreate == 1    \* times another process puts a removed object back
MaxRuns == 2        \* times the same cleanup command is started
MaxCleaners == 2    \* lock by lock: categories clean_my_mac runs in parallel
MaxPaths == 1       \* lock by lock: paths one category returns
Around == 2         \* sizes formatted on either side of each unit threshold

\* ------------------------------------------------------------ filesystem
\* F of the value of e, as a let binding computes it: e is evaluated once,
\* where the binding is made
With(e, F(_)) == CHOOSE r \in {F(v) : v \in {e}} : TRUE

NoPath == <<"<none>">>

Parent(p) == SubSeq(p, 1, Len(p) - 1)

\* Path::starts_with: component-wise prefix
starts_with(p, base) == Len(base) <= Len(p) /\ SubSeq(p, 1, Len(base)) = base

Kind(f, p) == IF p = <<>> THEN "dir" ELSE f[p].kind

\* resolution of a path, following symbolic links; NoPath when a component
\* is missing or is not a directory
RECURSIVE Walk(_, _, _, _)
Walk(f, cur, rest, fuel) ==
    IF rest = <<>> THEN cur
    ELSE LET nxt == Append(cur, Head(rest)) IN
         IF nxt \notin DOMAIN f THEN NoPath
         ELSE IF f[nxt].kind = "link"
              THEN IF fuel = 0 THEN NoPath
                   ELSE Walk(f, <<>>, f[nxt].target \o Tail(rest), fuel - 1)
         ELSE IF f[nxt].kind = "file" /\ Tail(rest) # <<>> THEN NoPath
         ELSE Walk(f, nxt, Tail(rest), fuel)

\* Path::canonicalize, NoPath standing for Err
canonicalize(f, p) == Walk(f, <<>>, p, MaxLinks)

\* Path::exists, is_file, is_dir: all follow symbolic links
exists(f, p) == canonicalize(f, p) # NoPath
is_file(f, p) == exists(f, p) /\ Kind(f, canonicalize(f, p)) = "file"
is_dir(f, p) == exists(f, p) /\ Kind(f, canonicalize(f, p)) = "dir"

\* the object fs::symlink_metadata and fs::remove_file act on: the parent is
\* resolved, the last component is not followed
lstat(f, p) ==
    IF p = <<>> THEN <<>>
    ELSE LET par == canonicalize(f, Parent(p)) IN
         IF par = NoPath \/ Kind(f, par) # "dir" THEN NoPath
         ELSE IF Append(par, p[Len(p)]) \in DOMAIN f
              THEN Append(par, p[Len(p)]) ELSE NoPath

is_symlink(f, p) == p # <<>> /\ lstat(f, p) # NoPath /\ f[lstat(f, p)].kind = "link"

\* the objects at and below the object d
Under(f, d) == With(d, LAMBDA at : {q \in DOMAIN f : starts_with(q, at)})

\* fs::read_dir: the entries of the directory p names, each spelled p/<name>
read_dir(f, p) ==
    With(canonicalize(f, p), LAMBDA d :
    {Append(p, q[Len(q)]) : q \in {r \in DOMAIN f : Len(r) = Len(d) + 1 /\ starts_with(r, d)}})

\* ----------------------------------------------------------- measurement
One(e) == SetToBag({e})

\* cleaner.rs get_size: [ok, size, skipped], skipped being the SkippedEntry
\* values it pushes on the way
RECURSIVE get_size(_, _), get_size_entries(_, _)
get_size(f, path) ==
    IF ~exists(f, path) THEN [ok |-> TRUE, size |-> 0, skipped |-> EmptyBag]
    ELSE With(lstat(f, path), LAMBDA l :
         IF Kind(f, l) \in {"file", "link"}
         THEN [ok |-> TRUE, size |-> f[l].size, skipped |-> EmptyBag]
         ELSE IF l \in noread
         THEN [ok |-> FALSE, size |-> 0, skipped |-> EmptyBag]
         ELSE With(get_size_entries(f, read_dir(f, path)), LAMBDA r :
              [ok |-> TRUE, size |-> r.size, skipped |-> r.skipped]))

get_size_entries(f, S) ==
    With(S, LAMBDA dir :
    IF dir = {} THEN [size |-> 0, skipped |-> EmptyBag]
    ELSE With(CHOOSE x \in dir : TRUE, LAMBDA e :
         With(get_size(f, e), LAMBDA r :
         With(get_size_entries(f, dir \ {e}), LAMBDA rest :
            IF r.ok
            THEN [size |-> r.size + rest.size, skipped |-> r.skipped (+) rest.skipped]
            ELSE [size |-> rest.size,
                  skipped |-> One([path |-> e, reason |-> "Unreadable entry"])
                              (+) rest.skipped]))))

\* get_size, lines 296-306: the warning pushed with each SkippedEntry
unreadable_warning(e) == [path |-> e.path, msg |-> e.reason]

\* cleaners/mod.rs calculate_size: [some, size]
RECURSIVE calculate_size(_, _), calculate_size_entries(_, _)
calculate_size(f, path) ==
    IF is_file(f, path)
    THEN [some |-> TRUE, size |-> f[canonicalize(f, path)].size]
    ELSE IF is_dir(f, path)
    THEN IF canonicalize(f, path) \in noread
         THEN [some |-> FALSE, size |-> 0]
         ELSE [some |-> TRUE, size |-> calculate_size_entries(f, read_dir(f, path))]
    ELSE [some |-> FALSE, size |-> 0]

calculate_size_entries(f, S) ==
    With(S, LAMBDA dir :
    IF dir = {} THEN 0
    ELSE With(CHOOSE x \in dir : TRUE, LAMBDA e :
         With(calculate_size_entries(f, dir \ {e}), LAMBDA rest :
            IF is_file(f, e) THEN f[canonicalize(f, e)].size + rest
            ELSE IF is_dir(f, e)
            THEN With(calculate_size(f, e), LAMBDA r :
                      IF r.some THEN r.size + rest ELSE rest)
            ELSE rest)))

\* utils/filesystem.rs calculate_dir_size: [ok, size]
RECURSIVE calculate_dir_size(_, _), calculate_dir_size_entries(_, _)
calculate_dir_size(f, path) ==
    IF is_file(f, path)
    THEN [ok |-> TRUE, size |-> f[canonicalize(f, path)].size]
    ELSE IF is_dir(f, path)
    THEN IF canonicalize(f, path) \in noread
         THEN [ok |-> FALSE, size |-> 0]
         ELSE calculate_dir_size_entries(f, read_dir(f, path))
    ELSE [ok |-> TRUE, size |-> 0]

calculate_dir_size_entries(f, S) ==
    With(S, LAMBDA dir :
    IF dir = {} THEN [ok |-> TRUE, size |-> 0]
    ELSE With(CHOOSE x \in dir : TRUE, LAMBDA e :
         With(lstat(f, e), LAMBDA l :
         With(calculate_dir_size_entries(f, dir \ {e}), LAMBDA rest :
         With(IF Kind(f, l) = "dir" THEN calculate_dir_size(f, e)
              ELSE IF Kind(f, l) = "file" THEN [ok |-> TRUE, size |-> f[l].size]
              ELSE [ok |-> TRUE, size |-> 0], LAMBDA r :
            IF r.ok /\ rest.ok THEN [ok |-> TRUE, size |-> r.size + rest.size]
            ELSE [ok |-> FALSE, size |-> 0])))))

\* --------------------------------------------------------------- removal
Without(f, D) == [q \in (DOMAIN f) \ D |-> f[q]]

Blocked(f, q) == \E r \in Under(f, q) : r \in prot \/ r \in noread

\* fs::remove_file: the possible results, each [ok, fs]
remove_file(f, path) ==
    LET l == lstat(f, path) IN
    IF l \in prot THEN {[ok |-> FALSE, fs |-> f]}
    ELSE {[ok |-> TRUE, fs |-> Without(f, {l})]}

\* fs::remove_dir_all: it stops at the first object it cannot remove, so a
\* failed call has removed some of the removable objects below the path
remove_dir_all(f, path) ==
    LET d == lstat(f, path)
        U == Under(f, d)
        bad == {q \in U : Blocked(f, q)}
    IN IF bad = {} THEN {[ok |-> TRUE, fs |-> Without(f, U)]}
       ELSE {[ok |-> FALSE, fs |-> Without(f, D)] :
                D \in {E \in SUBSET (U \ bad) : \A q \in E : Under(f, q) \subseteq E}}

\* remove_path without its dry_run test
remove_path_no_dry_run_test(f, path, dry) ==
    IF ~exists(f, path) THEN {[ok |-> TRUE, fs |-> f]}
    ELSE IF is_file(f, path) \/ is_symlink(f, path) THEN remove_file(f, path)
    ELSE IF is_dir(f, path) THEN remove_dir_all(f, path)
    ELSE remove_file(f, path)

\* utils/filesystem.rs remove_path: the possible results, each [ok, fs]
remove_path(f, path, dry) ==
    IF dry THEN {[ok |-> TRUE, fs |-> f]}
    ELSE IF ~exists(f, path) THEN {[ok |-> TRUE, fs |-> f]}
    ELSE IF is_file(f, path) \/ is_symlink(f, path) THEN remove_file(f, path)
    ELSE IF is_dir(f, path) THEN remove_dir_all(f, path)
    ELSE remove_file(f, path)

\* --------------------------------------------------------------- strings
\* Path::display of an absolute path
RECURSIVE join(_)
join(p) == IF p = <<>> THEN "" ELSE "/" \o Head(p) \o join(Tail(p))

display(p) == IF p = <<>> THEN "/" ELSE join(p)

\* Path::components of a string from position i on, cur being the component
\* read so far: separators repeat and end a path freely, "." is dropped
RECURSIVE Components(_, _, _)
Components(s, i, cur) ==
    LET flush == IF cur = "" \/ cur = "." THEN <<>> ELSE <<cur>> IN
    IF i > Len(s) THEN flush
    ELSE IF SubSeq(s, i, i) = "/" THEN flush \o Components(s, i + 1, "")
    ELSE Components(s, i + 1, cur \o SubSeq(s, i, i))

\* PathBuf::from(string): [abs, comps]
PathFrom(s) == [abs |-> Len(s) > 0 /\ SubSeq(s, 1, 1) = "/",
                comps |-> Components(s, 1, "")]

\* str::trim
RECURSIVE trim(_)
trim(s) == IF Len(s) > 0 /\ SubSeq(s, 1, 1) = " " THEN trim(SubSeq(s, 2, Len(s)))
           ELSE IF Len(s) > 0 /\ SubSeq(s, Len(s), Len(s)) = " "
           THEN trim(SubSeq(s, 1, Len(s) - 1))
           ELSE s

\* str::contains
contains(s, pat) ==
    \E i \in 1..(Len(s) - Len(pat) + 1) : SubSeq(s, i, i + Len(pat) - 1) = pat

\* str::ends_with
ends_with(s, suf) == Len(suf) <= Len(s) /\ SubSeq(s, Len(s) - Len(suf) + 1, Len(s)) = suf

\* str::to_lowercase, on ASCII
upper == "ABCDEFGHIJKLMNOPQRSTUVWXYZ"
lower == "abcdefghijklmnopqrstuvwxyz"

\* char::to_lowercase, on ASCII
to_lowercase_char(c) ==
    LET at == {k \in 1..Len(upper) : SubSeq(upper, k, k) = c}
    IN IF at = {} THEN c ELSE LET k == CHOOSE k \in at : TRUE IN SubSeq(lower, k, k)

\* the characters of s from position i on, in lower case
RECURSIVE to_lowercase_from(_, _)
to_lowercase_from(s, i) ==
    IF i > Len(s) THEN ""
    ELSE to_lowercase_char(SubSeq(s, i, i)) \o to_lowercase_from(s, i + 1)

to_lowercase(s) == to_lowercase_from(s, 1)

\* ----------------------------------------------------------- environment
HOME == <<"Users", "me">>
LARGE_FILE_THRESHOLD_BYTES == 100 * 1024 * 1024    \* large_files.rs, line 27
PRIVATE_TMP == <<"private", "tmp">>

Dir == [kind |-> "dir", size |-> 0, target |-> <<>>]
File(n) == [kind |-> "file", size |-> n, target |-> <<>>]
Link(t) == [kind |-> "link", size |-> Len(display(t)), target |-> t]

\* the filesystems a command may start in; keep is the size of
\* /Library/Caches/keep
Disk(keep) ==
       (<<"Library">> :> Dir)
    @@ (<<"Library", "Caches">> :> Dir)
    @@ (<<"Library", "Caches", "keep">> :> File(keep))
    @@ (<<"Library", "Caches", "x">> :> File(1))
    @@ (<<"private">> :> Dir)
    @@ (<<"private", "tmp">> :> Dir)
    @@ (<<"private", "tmp", "T">> :> Dir)
    @@ (<<"private", "tmp", "T", "g">> :> File(1))
    @@ (<<"private", "var">> :> Dir)
    @@ (<<"private", "var", "folders">> :> Dir)
    @@ (<<"private", "var", "folders", "T">> :> Dir)
    @@ (<<"private", "var", "folders", "T", "f">> :> File(1))
    @@ (<<"tmp">> :> Link(<<"private", "tmp">>))
    @@ (<<"var">> :> Link(<<"private", "var">>))
    @@ (<<"Users">> :> Dir)
    @@ (<<"Users", "me">> :> Dir)
    @@ (<<"Users", "me", "Library">> :> Dir)
    @@ (<<"Users", "me", "Library", "Caches">> :> Dir)
    @@ (<<"Users", "me", "Downloads">> :> Dir)
    @@ (<<"Users", "me", "Downloads", "big">> :> File(LARGE_FILE_THRESHOLD_BYTES))

\* a home directory with more in Downloads: a file one byte under the
\* threshold, a directory with a file over the threshold in it, a symbolic
\* link to the large file and one to the directory
LargeDisk ==
       Disk(1)
    @@ (HOME \o <<"Downloads", "small">> :> File(LARGE_FILE_THRESHOLD_BYTES - 1))
    @@ (HOME \o <<"Downloads", "sub">> :> Dir)
    @@ (HOME \o <<"Downloads", "sub", "deep">> :> File(LARGE_FILE_THRESHOLD_BYTES + 1))
    @@ (HOME \o <<"Downloads", "lnk">> :> Link(HOME \o <<"Downloads", "big">>))
    @@ (HOME \o <<"Downloads", "dlnk">> :> Link(HOME \o <<"Downloads", "sub">>))

\* /private/tmp/T with a directory in it that cannot be read, d, holding a
\* file
NestedDisk ==
       Disk(1)
    @@ (<<"private", "tmp", "T", "d">> :> Dir)
    @@ (<<"private", "tmp", "T", "d", "h">> :> File(1))

\* symbolic links where the size routines meet them: in /Library/Caches a
\* link to the file x and a link back to /Library/Caches itself, and
\* ~/Library/Logs as a link to the directory /private/tmp/T
LinkDisk ==
       Disk(1)
    @@ (<<"Library", "Caches", "ln">> :> Link(<<"Library", "Caches", "x">>))
    @@ (<<"Library", "Caches", "loop">> :> Link(<<"Library", "Caches">>))
    @@ (HOME \o <<"Library", "Logs">> :> Link(<<"private", "tmp", "T">>))

\* what Init draws for each engine: TMPDIR, the objects that resist removal
\* or reading, the --ignore list
TmpDirs(e) == IF e = "cleaner" THEN {NoPath, <<"var", "folders", "T">>}
              ELSE IF e = "orchestrator"
              THEN {NoPath, <<"tmp", "T">>, <<"private", "tmp", "T">>}
              ELSE {NoPath}

Hazards(e) ==
    IF e = "uninstall"
    THEN {[prot |-> {}, noread |-> {}],
          [prot |-> {<<"Applications", "Foo.app", "bin">>}, noread |-> {}]}
    ELSE {[prot |-> {}, noread |-> {}],
          [prot |-> {<<"Library", "Caches", "keep">>}, noread |-> {}],
          [prot |-> {},
           noread |-> IF e = "cleaner" THEN {<<"private", "var", "folders", "T">>}
                      ELSE {<<"private", "tmp", "T">>}]}

IgnoreLists(e) ==
    IF e = "uninstall" THEN {<<>>}
    ELSE {<<>>, <<"/Library/Caches">>, <<"/Library/Caches/">>, <<"/Library/Caches/keep">>,
          IF e = "cleaner" THEN <<"/var">> ELSE <<"/tmp/T">>,
          <<"">>, <<" ">>}

\* the target names of an uninstall command
Names(e) == IF e = "uninstall" THEN {"Foo", ""} ELSE {""}

\* the filesystem an uninstall command starts in
UninstallDisk ==
       Disk(1)
    @@ (<<"Applications">> :> Dir)
    @@ (<<"Applications", "Foo.app">> :> Dir)
    @@ (<<"Applications", "Foo.app", "bin">> :> File(1))
    @@ (<<"private", "etc">> :> Dir)
    @@ (<<"private", "etc", "Foo">> :> File(1))
    @@ (<<"private", "etc", "hosts">> :> File(1))
    @@ (<<"etc">> :> Link(<<"private", "etc">>))
    @@ (<<"Library", "LaunchAgents">> :> Dir)
    @@ (<<"Library", "LaunchAgents", "com.foo.agent.plist">> :> File(1))
    @@ (<<"Library", "LaunchAgents", "com.bar.plist">> :> File(1))
    @@ (<<"private", "var", "db">> :> Dir)
    @@ (<<"private", "var", "db", "receipts">> :> Dir)
    @@ (<<"private", "var", "db", "receipts", "com.foo.pkg.bom">> :> File(1))

\* ---------------------------------------------------- cleaner.rs: sources
\* the categories of cleaner.rs clean_my_mac, in its order
cleaners == <<"System Caches", "User Caches", "Temporary Files", "User Logs",
              "Crash Reporter Logs", "Trash Bins">>

\* glob: the existing objects a pattern of components matches, "*" matching
\* any one component
glob(f, pat) ==
    {q \in DOMAIN f : Len(q) = Len(pat)
                      /\ \A i \in 1..Len(pat) : pat[i] = "*" \/ pat[i] = q[i]}

RECURSIVE SetToSeq(_)
SetToSeq(S) == IF S = {} THEN <<>>
               ELSE LET e == CHOOSE x \in S : TRUE IN <<e>> \o SetToSeq(S \ {e})

\* cleaner.rs find_paths of each category
find_paths(f, name) ==
    CASE name = "System Caches" ->
            << <<"Library", "Caches">>, <<"System", "Library", "Caches">> >>
      [] name = "User Caches" -> << HOME \o <<"Library", "Caches">> >>
      [] name = "Temporary Files" ->
            << <<"private", "tmp">>, <<"private", "var", "folders">>,
               <<"var", "folders">> >>
      [] name = "User Logs" -> << HOME \o <<"Library", "Logs">> >>
      [] name = "Crash Reporter Logs" ->
            << HOME \o <<"Library", "Application Support", "CrashReporter">> >>
      [] name = "Trash Bins" ->
            << HOME \o <<".Trash">> >> \o SetToSeq(glob(f, <<"Volumes", "*", ".Trashes">>))

\* ------------------------------------------------- cleaner.rs: the engine
canonical_or_self(f, p) == IF canonicalize(f, p) # NoPath THEN canonicalize(f, p) ELSE p

\* cleaner.rs clean, lines 111-122: the ignore filter on one candidate.  A
\* relative pattern names no existing object, so it stays as written, and a
\* path starts with the empty path
should_ignore(f, p, ign) ==
    LET canonical_p == canonical_or_self(f, p) IN
    \E i \in 1..Len(ign) :
        LET ign_path == PathFrom(ign[i]) IN
        IF ign_path.abs
        THEN LET canonical_ign_path == canonical_or_self(f, ign_path.comps) IN
             canonical_p = canonical_ign_path \/ starts_with(canonical_p, canonical_ign_path)
        ELSE ign_path.comps = <<>>

NewTask(name, p) == [cleaner |-> name, path |-> p, st |-> "probe", size |-> 0, freed |-> 0]

Tasks(name, ps) == [i \in 1..Len(ps) |-> NewTask(name, ps[i])]

\* a worker's position: "probe" before its first pass, then "out" (no second
\* pass: safety skip, not found, size check failed), "empty" (no second pass:
\* size 0), or "ready" and the steps of the second pass up to "done" or
\* "nofree" (re-measured, nothing freed)
Settled == \A i \in DOMAIN task : task[i].st \in {"out", "empty", "nofree", "done"}
\* the first pass taken as over as soon as one worker has left it: a
\* pipeline, where for_each returns only when every worker has
Probed_any == \E i \in DOMAIN task : task[i].st # "probe"

\* par_iter().for_each has returned: every worker has left the first pass
Probed == \A i \in DOMAIN task : task[i].st # "probe"

Cfg == <<engine, uninstall_name, dry_run, ignore, tmpdir, prot, noread, fs0,
         runs, previous_run, shown, held, thread>>

\* clean, lines 106-143: find the candidates of category ci, filter them, log
\* the ignored ones
CleanerFilter ==
    /\ engine = "cleaner" /\ phase = "filter"
    /\ LET initial_paths == find_paths(fs, cleaners[ci])
           kept == SelectSeq(initial_paths, LAMBDA p : ~should_ignore(fs, p, ignore))
           ign == SelectSeq(initial_paths, LAMBDA p : should_ignore(fs, p, ignore))
       IN /\ task' = Tasks(cleaners[ci], kept)
          /\ paths_explicitly_ignored' = paths_explicitly_ignored \o ign
          /\ ignored_paths_logs' = ignored_paths_logs \o ign
    /\ candidates' = candidates \o find_paths(fs, cleaners[ci])
    /\ phase' = "run"
    /\ UNCHANGED <<Cfg, recreated, info_logs, fs, removed, ci, successful_entries, failed_entries,
                   skipped_during_size_check, warning_logs, total_freed,
                   all_successful_entries_map,
                   large_files_to_display_in_dry_run_map, total_row>>

\* clean, lines 146-197: the first pass on one path
CleanerProbe(i) ==
    /\ engine = "cleaner" /\ phase = "run"
    /\ i \in DOMAIN task /\ task[i].st = "probe"
    /\ LET path == task[i].path
           r == get_size(fs, path)
       IN IF path = PRIVATE_TMP \/ (tmpdir # NoPath /\ path = tmpdir)
          THEN /\ skipped_during_size_check' = skipped_during_size_check
                     (+) One([path |-> path, reason |-> "Active system temporary directory"])
               /\ task' = [task EXCEPT ![i].st = "out"]
               /\ UNCHANGED <<failed_entries, warning_logs>>
          ELSE IF ~exists(fs, path)
          THEN /\ failed_entries' = failed_entries
                     (+) One([path |-> path, error |-> "Not found"])
               /\ warning_logs' = warning_logs (+) One([path |-> path, msg |-> "Not found"])
               /\ task' = [task EXCEPT ![i].st = "out"]
               /\ UNCHANGED skipped_during_size_check
          ELSE IF r.ok
          THEN /\ skipped_during_size_check' = skipped_during_size_check (+) r.skipped
               /\ UNCHANGED failed_entries
               /\ IF r.size = 0
                  THEN /\ warning_logs' = warning_logs
                             (+) BagOfAll(unreadable_warning, r.skipped)
                             (+) One([path |-> path, msg |-> "Skipping empty path"])
                       /\ task' = [task EXCEPT ![i].st = "empty"]
                  ELSE /\ task' = [task EXCEPT ![i].st = "ready", ![i].size = r.size]
                       /\ warning_logs' = warning_logs
                             (+) BagOfAll(unreadable_warning, r.skipped)
          ELSE /\ skipped_during_size_check' = skipped_during_size_check
                     (+) One([path |-> path, reason |-> "Size check failed"])
               /\ warning_logs' = warning_logs
                     (+) One([path |-> path, msg |-> "Size check failed"])
               /\ task' = [task EXCEPT ![i].st = "out"]
               /\ UNCHANGED failed_entries
    /\ UNCHANGED <<Cfg, recreated, candidates, info_logs, fs, removed, phase, ci, paths_explicitly_ignored,
                   ignored_paths_logs, successful_entries, total_freed,
                   all_successful_entries_map,
                   large_files_to_display_in_dry_run_map, total_row>>

\* clean, lines 205-215: the second pass on one path, dry run: the Success
\* entry, then the counter
CleanerWouldClean(i) ==
    /\ engine = "cleaner" /\ phase = "run" /\ Probed /\ dry_run
    /\ i \in DOMAIN task /\ task[i].st = "ready"
    /\ successful_entries' = successful_entries
          (+) One([path |-> task[i].path, bytes |-> task[i].size])
    /\ task' = [task EXCEPT ![i].st = "add", ![i].freed = task[i].size]
    /\ UNCHANGED <<Cfg, recreated, candidates, info_logs, fs, removed, phase, ci, paths_explicitly_ignored,
                   ignored_paths_logs, failed_entries, skipped_during_size_check,
                   warning_logs, total_freed, all_successful_entries_map,
                   large_files_to_display_in_dry_run_map, total_row>>

\* remove_path with its error propagated out of clean, where clean records
\* it and goes on
CleanerRemove_propagate(i) ==
    /\ engine = "cleaner" /\ phase = "run" /\ Probed /\ ~dry_run
    /\ i \in DOMAIN task /\ task[i].st = "ready"
    /\ \E r \in remove_path(fs, task[i].path, FALSE) :
          /\ fs' = r.fs
          /\ removed' = removed \cup ((DOMAIN fs) \ (DOMAIN r.fs))
          /\ phase' = IF r.ok THEN phase ELSE "failed"
    /\ task' = [task EXCEPT ![i].st = "size"]
    /\ UNCHANGED <<Cfg, recreated, candidates, info_logs, ci, paths_explicitly_ignored,
                   ignored_paths_logs, successful_entries, failed_entries,
                   skipped_during_size_check, warning_logs, total_freed,
                   all_successful_entries_map,
                   large_files_to_display_in_dry_run_map, total_row>>

\* clean, lines 223-234: remove_path and the Failure entry; the worker goes
\* on to the re-measurement either way
CleanerRemove(i) ==
    /\ engine = "cleaner" /\ phase = "run" /\ Probed /\ ~dry_run
    /\ i \in DOMAIN task /\ task[i].st = "ready"
    /\ \E r \in remove_path(fs, task[i].path, FALSE) :
          /\ fs' = r.fs
          /\ removed' = removed \cup ((DOMAIN fs) \ (DOMAIN r.fs))
          /\ IF r.ok
             THEN UNCHANGED <<failed_entries, warning_logs>>
             ELSE /\ failed_entries' = failed_entries
                        (+) One([path |-> task[i].path, error |-> "Failed to delete"])
                  /\ warning_logs' = warning_logs
                        (+) One([path |-> task[i].path, msg |-> "Failed to delete"])
    /\ task' = [task EXCEPT ![i].st = "size"]
    /\ UNCHANGED <<Cfg, recreated, candidates, info_logs, phase, ci, paths_explicitly_ignored, ignored_paths_logs,
                   successful_entries, skipped_during_size_check, total_freed,
                   all_successful_entries_map,
                   large_files_to_display_in_dry_run_map, total_row>>

\* u64::saturating_sub
saturating_sub(a, b) == IF a >= b THEN a - b ELSE 0

\* clean, lines 236-264: the re-measurement and what it decides
CleanerRemeasure(i) ==
    /\ engine = "cleaner" /\ phase = "run"
    /\ i \in DOMAIN task /\ task[i].st = "size"
    /\ LET path == task[i].path
           r == get_size(fs, path)
           freed == saturating_sub(task[i].size, r.size)
       IN IF r.ok
          THEN /\ skipped_during_size_check' = skipped_during_size_check (+) r.skipped
               /\ IF freed > 0
                  THEN /\ task' = [task EXCEPT ![i].st = "add", ![i].freed = freed]
                       /\ warning_logs' = warning_logs
                             (+) BagOfAll(unreadable_warning, r.skipped)
                  ELSE /\ warning_logs' = warning_logs
                             (+) BagOfAll(unreadable_warning, r.skipped)
                             (+) One([path |-> path, msg |-> "No space freed"])
                       /\ task' = [task EXCEPT ![i].st = "nofree"]
          ELSE /\ warning_logs' = warning_logs
                     (+) One([path |-> path, msg |-> "Failed to get size after cleanup"])
               /\ skipped_during_size_check' = skipped_during_size_check
                     (+) One([path |-> path, reason |-> "Failed to get size after cleanup"])
               /\ task' = [task EXCEPT ![i].st = "done"]
    /\ UNCHANGED <<Cfg, recreated, candidates, info_logs, fs, removed, phase, ci, paths_explicitly_ignored,
                   ignored_paths_logs, successful_entries, failed_entries,
                   total_freed, all_successful_entries_map,
                   large_files_to_display_in_dry_run_map, total_row>>

\* the counter stored, where clean adds to it
CleanerFetchAdd_store(i) ==
    /\ engine = "cleaner" /\ phase = "run"
    /\ i \in DOMAIN task /\ task[i].st = "add"
    /\ total_freed' = task[i].freed
    /\ task' = [task EXCEPT ![i].st = IF dry_run THEN "done" ELSE "push"]
    /\ UNCHANGED <<Cfg, recreated, candidates, info_logs, fs, removed, phase, ci,
                   paths_explicitly_ignored, ignored_paths_logs,
                   successful_entries, failed_entries, skipped_during_size_check,
                   warning_logs, all_successful_entries_map,
                   large_files_to_display_in_dry_run_map, total_row>>

\* clean, lines 215 and 241: total_freed.fetch_add
CleanerFetchAdd(i) ==
    /\ engine = "cleaner" /\ phase = "run"
    /\ i \in DOMAIN task /\ task[i].st = "add"
    /\ total_freed' = total_freed + task[i].freed
    /\ task' = [task EXCEPT ![i].st = IF dry_run THEN "done" ELSE "push"]
    /\ UNCHANGED <<Cfg, recreated, candidates, info_logs, fs, removed, phase, ci, paths_explicitly_ignored,
                   ignored_paths_logs, successful_entries, failed_entries,
                   skipped_during_size_check, warning_logs,
                   all_successful_entries_map,
                   large_files_to_display_in_dry_run_map, total_row>>

\* clean, lines 242-245: the Success entry of a live run
CleanerPushSuccess(i) ==
    /\ engine = "cleaner" /\ phase = "run"
    /\ i \in DOMAIN task /\ task[i].st = "push"
    /\ successful_entries' = successful_entries
          (+) One([path |-> task[i].path, bytes |-> task[i].freed])
    /\ task' = [task EXCEPT ![i].st = "done"]
    /\ UNCHANGED <<Cfg, recreated, candidates, info_logs, fs, removed, phase, ci, paths_explicitly_ignored,
                   ignored_paths_logs, failed_entries, skipped_during_size_check,
                   warning_logs, total_freed, all_successful_entries_map,
                   large_files_to_display_in_dry_run_map, total_row>>

\* clean_my_mac, lines 490-504: clean returned Ok, the next category
CleanerNext ==
    /\ engine = "cleaner" /\ phase = "run" /\ Settled
    /\ ci < Len(cleaners)
    /\ ci' = ci + 1
    /\ phase' = "filter"
    /\ task' = <<>>
    /\ UNCHANGED <<Cfg, recreated, candidates, info_logs, fs, removed, paths_explicitly_ignored, ignored_paths_logs,
                   successful_entries, failed_entries, skipped_during_size_check,
                   warning_logs, total_freed, all_successful_entries_map,
                   large_files_to_display_in_dry_run_map, total_row>>

\* clean_my_mac, lines 546-603: the "Total" row, and Ok(())
CleanerFinish ==
    /\ engine = "cleaner" /\ phase = "run" /\ Settled
    /\ ci = Len(cleaners)
    /\ total_row' = total_freed
    /\ phase' = "done"
    /\ UNCHANGED <<Cfg, recreated, candidates, info_logs, fs, removed, ci, task, paths_explicitly_ignored,
                   ignored_paths_logs, successful_entries, failed_entries,
                   skipped_during_size_check, warning_logs, total_freed,
                   all_successful_entries_map,
                   large_files_to_display_in_dry_run_map>>

\* ------------------------------------------------- cleaners/: the sources
\* the categories of cleaner_orchestrator.rs clean_my_mac, lines 66-74
standard_cleaners == <<"System Caches", "User Caches", "Temporary Files", "User Logs",
                       "Crash Reporter Logs", "Trash Bins", "Browser Caches">>

temp_dirs_to_scan == << <<"tmp">>, <<"private", "tmp">>, <<"var", "tmp">> >>

\* temporary_files.rs find_paths, lines 42-74: the entries of one scanned
\* directory that become candidates
temporary_files_scan(f, dir) ==
    LET canonical_dir == canonical_or_self(f, dir) IN
    IF ~is_dir(f, canonical_dir) \/ canonical_dir \in noread THEN {}
    ELSE {path \in read_dir(f, canonical_dir) :
             /\ path # canonical_dir
             /\ ~(tmpdir # NoPath /\ (path = tmpdir \/ canonicalize(f, path) = tmpdir))}

RECURSIVE temporary_files_find_paths(_, _)
temporary_files_find_paths(f, k) ==
    IF k > Len(temp_dirs_to_scan) THEN <<>>
    ELSE SetToSeq(temporary_files_scan(f, temp_dirs_to_scan[k]))
         \o temporary_files_find_paths(f, k + 1)

\* browser_caches.rs find_paths: the directories its glob patterns match (the
\* literal and the wildcard pattern of the first Chrome cache location; the
\* other patterns have the same two forms)
chrome_cache_patterns ==
    << HOME \o <<"Library", "Caches", "Google", "Chrome", "Default", "Cache">>,
       HOME \o <<"Library", "Caches", "Google", "Chrome", "*", "Cache">> >>

RECURSIVE browser_caches_find_paths(_, _)
browser_caches_find_paths(f, k) ==
    IF k > Len(chrome_cache_patterns) THEN <<>>
    ELSE SetToSeq({e \in glob(f, chrome_cache_patterns[k]) : is_dir(f, e)})
         \o browser_caches_find_paths(f, k + 1)

common_user_dirs == <<"Downloads", "Desktop", "Documents", "Movies", "Music", "Pictures">>

\* WalkDir::new(dir): dir and everything below it, links not followed
WalkDir(f, dir) ==
    LET c == canonicalize(f, dir) IN
    {dir \o SubSeq(q, Len(c) + 1, Len(q)) : q \in Under(f, c)}

\* large_files.rs find_paths, lines 29-50
RECURSIVE large_files_find_paths(_, _)
large_files_find_paths(f, k) ==
    IF k > Len(common_user_dirs) THEN <<>>
    ELSE LET current_dir == HOME \o <<common_user_dirs[k]>> IN
         (IF ~exists(f, current_dir) THEN <<>>
          ELSE SetToSeq({path \in WalkDir(f, current_dir) :
                           /\ is_file(f, path)
                           /\ f[canonicalize(f, path)].size >= LARGE_FILE_THRESHOLD_BYTES}))
         \o large_files_find_paths(f, k + 1)

\* find_paths of each category of cleaners/
cleaners_find_paths(f, name) ==
    CASE name = "Temporary Files" -> temporary_files_find_paths(f, 1)
      [] name = "Browser Caches" -> browser_caches_find_paths(f, 1)
      [] name = "Large Files" -> large_files_find_paths(f, 1)
      [] OTHER -> find_paths(f, name)

\* cleaners/mod.rs clean, lines 100-105: the ignore filter
retain(paths, ign) ==
    SelectSeq(paths, LAMBDA p :
        ~\E i \in 1..Len(ign) : contains(display(p), trim(ign[i])))

\* cleaner_orchestrator.rs update_aggregated_log_map; the key "name: path" is
\* kept as the pair it is split back into
common_display_path(path) == IF Len(path) + 1 > 1 /\ Len(path) > 0 THEN Parent(path) ELSE path

update_aggregated_log_map(log_map, cleaner_name, path, size) ==
    LET entry_key == <<cleaner_name, common_display_path(path)>> IN
    IF entry_key \in DOMAIN log_map
    THEN [log_map EXCEPT ![entry_key] = @ + size]
    ELSE log_map @@ (entry_key :> size)

\* ------------------------------------ cleaner_orchestrator.rs: the engine
RECURSIVE AllPaths(_)
AllPaths(k) ==
    IF k > Len(standard_cleaners) THEN <<>>
    ELSE cleaners_find_paths(fs, standard_cleaners[k]) \o AllPaths(k + 1)

RECURSIVE StandardTasks(_)
StandardTasks(k) ==
    IF k > Len(standard_cleaners) THEN <<>>
    ELSE Tasks(standard_cleaners[k],
               retain(cleaners_find_paths(fs, standard_cleaners[k]), ignore))
         \o StandardTasks(k + 1)

\* clean_my_mac, line 107, and cleaners/mod.rs clean, lines 96-113: every
\* standard category finds and filters its candidates
OrchestratorStart ==
    /\ engine = "orchestrator" /\ phase = "filter"
    /\ task' = StandardTasks(1)
    /\ candidates' = AllPaths(1)
    /\ phase' = "probe"
    /\ UNCHANGED <<Cfg, recreated, info_logs, fs, removed, ci, paths_explicitly_ignored, ignored_paths_logs,
                   successful_entries, failed_entries, skipped_during_size_check,
                   warning_logs, total_freed, all_successful_entries_map,
                   large_files_to_display_in_dry_run_map, total_row>>

\* cleaners/mod.rs clean, lines 116-140, then clean_my_mac, lines 119-159, on
\* one candidate: calculate_size, then calculate_dir_size
OrchestratorProbe(i) ==
    /\ engine = "orchestrator" /\ phase = "probe"
    /\ i \in DOMAIN task /\ task[i].st = "probe"
    /\ LET path == task[i].path IN
       IF ~calculate_size(fs, path).some
       THEN /\ skipped_during_size_check' = skipped_during_size_check
                  (+) One([path |-> path, reason |-> "Could not determine size or access path."])
            /\ task' = [task EXCEPT ![i].st = "out"]
       ELSE IF calculate_dir_size(fs, path).ok
       THEN /\ task' = [task EXCEPT ![i].st = "ready",
                                    ![i].size = calculate_dir_size(fs, path).size]
            /\ UNCHANGED skipped_during_size_check
       ELSE /\ skipped_during_size_check' = skipped_during_size_check
                  (+) One([path |-> path, reason |-> "Could not determine size or access path"])
            /\ task' = [task EXCEPT ![i].st = "out"]
    /\ UNCHANGED <<Cfg, recreated, candidates, info_logs, fs, removed, phase, ci, paths_explicitly_ignored,
                   ignored_paths_logs, successful_entries, failed_entries,
                   warning_logs, total_freed, all_successful_entries_map,
                   large_files_to_display_in_dry_run_map, total_row>>

\* the PathToCheck values LargeFilesCleaner.clean returns, and the Skip
\* entries it pushes (cleaners/mod.rs clean)
large_paths == retain(cleaners_find_paths(fs, "Large Files"), ignore)

large_found == SelectSeq(large_paths, LAMBDA p : calculate_size(fs, p).some)

large_unsized == SelectSeq(large_paths, LAMBDA p : ~calculate_size(fs, p).some)

RECURSIVE SkipAll(_, _)
SkipAll(ps, reason) ==
    IF ps = <<>> THEN EmptyBag
    ELSE One([path |-> Head(ps), reason |-> reason]) (+) SkipAll(Tail(ps), reason)

RECURSIVE large_display_map(_, _)
large_display_map(ps, log_map) ==
    IF ps = <<>> THEN log_map
    ELSE large_display_map(Tail(ps),
            update_aggregated_log_map(log_map, "Large Files", Head(ps),
                                      calculate_dir_size(fs, Head(ps)).size))

\* clean_my_mac, lines 180-236: the large files, after the standard
\* categories have joined: shown apart in a dry run, added to the paths to
\* clean otherwise
OrchestratorLargeFiles ==
    /\ engine = "orchestrator" /\ phase = "probe" /\ Probed
    /\ IF dry_run
       THEN /\ large_files_to_display_in_dry_run_map' =
                  large_display_map(
                      SelectSeq(large_found, LAMBDA p : calculate_dir_size(fs, p).ok),
                      large_files_to_display_in_dry_run_map)
            /\ skipped_during_size_check' = skipped_during_size_check
                  (+) SkipAll(large_unsized, "Could not determine size or access path.")
                  (+) SkipAll(SelectSeq(large_found, LAMBDA p : ~calculate_dir_size(fs, p).ok),
                              "Could not determine size or access for large file")
            /\ UNCHANGED task
       ELSE /\ task' = task \o
                  [i \in 1..Len(large_found) |->
                      [cleaner |-> "Large Files", path |-> large_found[i], st |-> "ready",
                       size |-> calculate_size(fs, large_found[i]).size, freed |-> 0]]
            /\ skipped_during_size_check' = skipped_during_size_check
                  (+) SkipAll(large_unsized, "Could not determine size or access path.")
            /\ UNCHANGED large_files_to_display_in_dry_run_map
    /\ candidates' = candidates \o cleaners_find_paths(fs, "Large Files")
    /\ phase' = "act"
    /\ UNCHANGED <<Cfg, recreated, info_logs, fs, removed, ci, paths_explicitly_ignored, ignored_paths_logs,
                   successful_entries, failed_entries, warning_logs, total_freed,
                   all_successful_entries_map, total_row>>

\* clean_my_mac, lines 269-301: remove_path on one path, and the Failure
\* entry when it fails
OrchestratorRemove(i) ==
    /\ engine = "orchestrator" /\ phase = "act"
    /\ i \in DOMAIN task /\ task[i].st = "ready"
    /\ \E r \in remove_path(fs, task[i].path, dry_run) :
          /\ fs' = r.fs
          /\ removed' = removed \cup ((DOMAIN fs) \ (DOMAIN r.fs))
          /\ IF r.ok
             THEN /\ task' = [task EXCEPT ![i].st = "succ"]
                  /\ UNCHANGED failed_entries
             ELSE /\ failed_entries' = failed_entries
                        (+) One([path |-> task[i].path, error |-> "Failed to delete"])
                  /\ task' = [task EXCEPT ![i].st = "done"]
    /\ UNCHANGED <<Cfg, recreated, candidates, info_logs, phase, ci, paths_explicitly_ignored, ignored_paths_logs,
                   successful_entries, skipped_during_size_check, warning_logs,
                   total_freed, all_successful_entries_map,
                   large_files_to_display_in_dry_run_map, total_row>>

\* clean_my_mac, lines 274-288: the Success of one path goes into the
\* aggregated map (cleaning_logs_map gets the same update);
\* successful_entries keeps the path and size of each such update
OrchestratorRecord(i) ==
    /\ engine = "orchestrator" /\ phase = "act"
    /\ i \in DOMAIN task /\ task[i].st = "succ"
    /\ all_successful_entries_map' =
          update_aggregated_log_map(all_successful_entries_map, task[i].cleaner,
                                    task[i].path, task[i].size)
    /\ successful_entries' = successful_entries
          (+) One([path |-> task[i].path, bytes |-> task[i].size])
    /\ task' = [task EXCEPT ![i].st = "add", ![i].freed = task[i].size]
    /\ UNCHANGED <<Cfg, recreated, candidates, info_logs, fs, removed, phase, ci, paths_explicitly_ignored,
                   ignored_paths_logs, failed_entries, skipped_during_size_check,
                   warning_logs, total_freed,
                   large_files_to_display_in_dry_run_map, total_row>>

\* the counter stored, where clean_my_mac adds to it
OrchestratorFetchAdd_store(i) ==
    /\ engine = "orchestrator" /\ phase = "act"
    /\ i \in DOMAIN task /\ task[i].st = "add"
    /\ total_freed' = task[i].size
    /\ task' = [task EXCEPT ![i].st = "done"]
    /\ UNCHANGED <<Cfg, recreated, candidates, info_logs, fs, removed, phase, ci,
                   paths_explicitly_ignored, ignored_paths_logs,
                   successful_entries, failed_entries, skipped_during_size_check,
                   warning_logs, all_successful_entries_map,
                   large_files_to_display_in_dry_run_map, total_row>>

\* clean_my_mac, line 290: total_freed_space.fetch_add
OrchestratorFetchAdd(i) ==
    /\ engine = "orchestrator" /\ phase = "act"
    /\ i \in DOMAIN task /\ task[i].st = "add"
    /\ total_freed' = total_freed + task[i].size
    /\ task' = [task EXCEPT ![i].st = "done"]
    /\ UNCHANGED <<Cfg, recreated, candidates, info_logs, fs, removed, phase, ci, paths_explicitly_ignored,
                   ignored_paths_logs, successful_entries, failed_entries,
                   skipped_during_size_check, warning_logs,
                   all_successful_entries_map,
                   large_files_to_display_in_dry_run_map, total_row>>

\* clean_my_mac, lines 340-365 and 480: the "Total" row, and Ok(())
OrchestratorFinish ==
    /\ engine = "orchestrator" /\ phase = "act" /\ Settled
    /\ total_row' = total_freed
    /\ phase' = "done"
    /\ UNCHANGED <<Cfg, recreated, candidates, info_logs, fs, removed, ci, task, paths_explicitly_ignored,
                   ignored_paths_logs, successful_entries, failed_entries,
                   skipped_during_size_check, warning_logs, total_freed,
                   all_successful_entries_map,
                   large_files_to_display_in_dry_run_map>>

\* ---------------------------------------------- uninstaller.rs: sources
\* the two uninstallers bin/osx.rs runs for a name, in its order
uninstallers == <<"MacApp", "CliTool">>

home == display(HOME)

\* MacApp::find_related_paths: the system-wide and the per-user form of its
\* templates (the other templates have the same two forms)
MacApp_find_related_paths(n) ==
    << PathFrom("/Applications/" \o n \o ".app").comps,
       PathFrom("/Library/Application Support/" \o n).comps,
       PathFrom(home \o "/Library/Caches/" \o n).comps >>

\* CliTool::find_related_paths: two of its fixed templates and the two
\* Homebrew ones, which depend on the Cellar directories
CliTool_find_related_paths(f, n) ==
    << PathFrom("/usr/local/bin/" \o n).comps,
       PathFrom("/etc/" \o n).comps >>
    \o (IF exists(f, <<"opt", "homebrew", "Cellar">>)
        THEN << PathFrom("/opt/homebrew/Cellar/" \o n).comps >> ELSE <<>>)
    \o (IF exists(f, <<"usr", "local", "Cellar">>)
        THEN << PathFrom("/usr/local/Cellar/" \o n).comps >> ELSE <<>>)

\* the entries fs::read_dir yields for a directory that can be read
entries(f, dir) == IF is_dir(f, dir) /\ canonicalize(f, dir) \notin noread
                   THEN read_dir(f, dir) ELSE {}

launch_dirs == << <<"Library", "LaunchAgents">>, <<"Library", "LaunchDaemons">>,
                  HOME \o <<"Library", "LaunchAgents">> >>

RECURSIVE find_launch_agents_for_app(_, _, _)
find_launch_agents_for_app(f, app_name, k) ==
    IF k > Len(launch_dirs) THEN <<>>
    ELSE SetToSeq({path \in entries(f, launch_dirs[k]) :
                      LET fname == path[Len(path)] IN
                      /\ contains(to_lowercase(fname), to_lowercase(app_name))
                      /\ ends_with(fname, ".plist")})
         \o find_launch_agents_for_app(f, app_name, k + 1)

receipt_dirs == << <<"var", "db", "receipts">>, <<"Library", "Receipts">> >>

RECURSIVE find_pkg_receipts(_, _, _)
find_pkg_receipts(f, app_name, k) ==
    IF k > Len(receipt_dirs) THEN <<>>
    ELSE SetToSeq({path \in entries(f, receipt_dirs[k]) :
                      contains(to_lowercase(path[Len(path)]), to_lowercase(app_name))})
         \o find_pkg_receipts(f, app_name, k + 1)

\* ------------------------------------------- uninstaller.rs: the engine
\* uninstall, lines 43-63: the paths of one uninstaller
UninstallStart ==
    /\ engine = "uninstall" /\ phase = "filter"
    /\ task' = Tasks(uninstallers[ci],
                     (IF uninstallers[ci] = "MacApp" THEN MacApp_find_related_paths(uninstall_name)
                      ELSE CliTool_find_related_paths(fs, uninstall_name))
                     \o find_launch_agents_for_app(fs, uninstall_name, 1)
                     \o find_pkg_receipts(fs, uninstall_name, 1))
    /\ phase' = "run"
    /\ UNCHANGED <<Cfg, recreated, candidates, info_logs, fs, removed, ci,
                   paths_explicitly_ignored, ignored_paths_logs,
                   successful_entries, failed_entries, skipped_during_size_check,
                   warning_logs, total_freed, all_successful_entries_map,
                   large_files_to_display_in_dry_run_map, total_row>>

\* one path, with remove_path's error propagated out of uninstall, where
\* uninstall logs it and goes on
UninstallPath_propagate(i) ==
    /\ engine = "uninstall" /\ phase = "run"
    /\ i \in DOMAIN task /\ task[i].st = "probe"
    /\ LET path == task[i].path IN
       IF ~exists(fs, path)
       THEN /\ warning_logs' = warning_logs (+) One([path |-> path, msg |-> "Not found"])
            /\ UNCHANGED <<info_logs, fs, removed, phase>>
       ELSE IF dry_run
       THEN /\ info_logs' = info_logs (+) One([path |-> path, msg |-> "Would delete"])
            /\ UNCHANGED <<warning_logs, fs, removed, phase>>
       ELSE /\ info_logs' = info_logs (+) One([path |-> path, msg |-> "Deleting"])
            /\ \E r \in remove_path(fs, path, FALSE) :
                  /\ fs' = r.fs
                  /\ removed' = removed \cup ((DOMAIN fs) \ (DOMAIN r.fs))
                  /\ phase' = IF r.ok THEN phase ELSE "failed"
                  /\ UNCHANGED warning_logs
    /\ task' = [task EXCEPT ![i].st = "done"]
    /\ UNCHANGED <<Cfg, recreated, candidates, ci, paths_explicitly_ignored,
                   ignored_paths_logs, successful_entries, failed_entries,
                   skipped_during_size_check, total_freed,
                   all_successful_entries_map,
                   large_files_to_display_in_dry_run_map, total_row>>

\* uninstall, lines 63-92: one path
UninstallPath(i) ==
    /\ engine = "uninstall" /\ phase = "run"
    /\ i \in DOMAIN task /\ task[i].st = "probe"
    /\ LET path == task[i].path IN
       IF ~exists(fs, path)
       THEN /\ warning_logs' = warning_logs (+) One([path |-> path, msg |-> "Not found"])
            /\ UNCHANGED <<info_logs, fs, removed>>
       ELSE IF dry_run
       THEN /\ info_logs' = info_logs (+) One([path |-> path, msg |-> "Would delete"])
            /\ UNCHANGED <<warning_logs, fs, removed>>
       ELSE /\ info_logs' = info_logs (+) One([path |-> path, msg |-> "Deleting"])
            /\ \E r \in remove_path(fs, path, FALSE) :
                  /\ fs' = r.fs
                  /\ removed' = removed \cup ((DOMAIN fs) \ (DOMAIN r.fs))
                  /\ IF r.ok THEN UNCHANGED warning_logs
                     ELSE warning_logs' = warning_logs
                               (+) One([path |-> path, msg |-> "Failed to delete"])
    /\ task' = [task EXCEPT ![i].st = "done"]
    /\ UNCHANGED <<Cfg, recreated, candidates, phase, ci, paths_explicitly_ignored,
                   ignored_paths_logs, successful_entries, failed_entries,
                   skipped_during_size_check, total_freed,
                   all_successful_entries_map,
                   large_files_to_display_in_dry_run_map, total_row>>

\* bin/osx.rs main, lines 40-50: app.uninstall returned Ok, cli_tool.uninstall
\* is next
UninstallNext ==
    /\ engine = "uninstall" /\ phase = "run" /\ Settled
    /\ ci < Len(uninstallers)
    /\ ci' = ci + 1
    /\ phase' = "filter"
    /\ task' = <<>>
    /\ UNCHANGED <<Cfg, recreated, candidates, info_logs, fs, removed,
                   paths_explicitly_ignored, ignored_paths_logs,
                   successful_entries, failed_entries, skipped_during_size_check,
                   warning_logs, total_freed, all_successful_entries_map,
                   large_files_to_display_in_dry_run_map, total_row>>

\* bin/osx.rs main, lines 50-57: cli_tool.uninstall returned Ok
UninstallFinish ==
    /\ engine = "uninstall" /\ phase = "run" /\ Settled
    /\ ci = Len(uninstallers)
    /\ phase' = "done"
    /\ UNCHANGED <<Cfg, recreated, candidates, info_logs, fs, removed, ci, task,
                   paths_explicitly_ignored, ignored_paths_logs,
                   successful_entries, failed_entries, skipped_during_size_check,
                   warning_logs, total_freed, all_successful_entries_map,
                   large_files_to_display_in_dry_run_map, total_row>>

\* ------------------------------------------------------- other processes
\* another process puts back, as it was, an object the command has removed
\* (a cache directory its application writes again)
EnvRecreate(q) ==
    /\ phase # "done" /\ recreated < MaxRecreate
    /\ q \in removed /\ q \notin DOMAIN fs
    /\ Len(q) = 1 \/ Parent(q) \in DOMAIN fs
    /\ fs' = fs @@ [r \in Under(fs0, q) |-> fs0[r]]
    /\ recreated' = recreated + 1
    /\ UNCHANGED <<Cfg, candidates, info_logs, removed, phase, ci, task,
                   paths_explicitly_ignored, ignored_paths_logs,
                   successful_entries, failed_entries, skipped_during_size_check,
                   warning_logs, total_freed, all_successful_entries_map,
                   large_files_to_display_in_dry_run_map, total_row>>

\* ------------------------------------------------------------------ runs
\* the same cleanup command started again after a dry run has returned: its
\* collections and counter are new, the filesystem is as the run left it
RunAgain ==
    /\ engine \in {"cleaner", "orchestrator"} /\ dry_run
    /\ phase = "done" /\ runs < MaxRuns
    /\ runs' = runs + 1
    /\ previous_run' = [total |-> total_row, successes |-> successful_entries]
    /\ candidates' = <<>>
    /\ phase' = "filter"
    /\ ci' = 1
    /\ task' = <<>>
    /\ paths_explicitly_ignored' = <<>>
    /\ ignored_paths_logs' = <<>>
    /\ successful_entries' = EmptyBag
    /\ failed_entries' = EmptyBag
    /\ skipped_during_size_check' = EmptyBag
    /\ warning_logs' = EmptyBag
    /\ total_freed' = 0
    /\ all_successful_entries_map' = <<>>
    /\ large_files_to_display_in_dry_run_map' = <<>>
    /\ total_row' = -1
    /\ UNCHANGED <<engine, uninstall_name, dry_run, ignore, tmpdir, prot, noread, fs0,
                   fs, removed, recreated, info_logs, shown, held, thread>>

\* ------------------------------------- cleaner_orchestrator.rs: the locks
\* clean_my_mac lock by lock: its threads, the mutexes they take and leave,
\* and what each thread has left to do.  What a thread finds (the paths of
\* a category, whether a size or a removal fails) is any of the outcomes
\* the code branches on
Mutexes == {"all_successful_entries_map", "all_failed_entries",
            "all_skipped_during_size_check", "checking_logs_map",
            "cleaning_logs_map", "all_paths_to_clean_after_check",
            "large_files_to_display_in_dry_run_map"}

NoThread == <<"none", 0>>
MainThread == <<"main", 0>>

\* one thing a thread has left to do: take or leave the mutex m, or a step
\* of the code named op (k counting the paths left in a loop)
Op(kind, mutex, count) == [op |-> kind, m |-> mutex, k |-> count]

\* m.lock().unwrap() in a statement that ends with the guard dropped
transient(m) == <<Op("lock", m, 0), Op("unlock", m, 0)>>

\* the map the closure of the second pass logs into, were it the one whose
\* guard clean_my_mac holds from line 239 on
ActLogMutex_checking == "checking_logs_map"

\* clean_my_mac, lines 274-279: the map the closure of the second pass logs
\* into
ActLogMutex == "cleaning_logs_map"

\* what a step that branches leaves to do, for each way it can go
Expand(o, dry) ==
    CASE o.op = "clean" ->
            \* cleaners/mod.rs clean, lines 116-146: a Skip for a path without
            \* a size, or none
            {<<>>, transient("all_skipped_during_size_check")}
      [] o.op = "match_clean" ->
            \* clean_my_mac, lines 110-175: Err(e), or Ok with the paths
            {transient("all_failed_entries")}
            \cup {<<Op("lock", "all_paths_to_clean_after_check", 0), Op("for", "", n)>> :
                     n \in 0..MaxPaths}
      [] o.op = "for" ->
            \* clean_my_mac, lines 119-159: one path of the loop, or its end
            IF o.k = 0 THEN {<<Op("unlock", "all_paths_to_clean_after_check", 0)>>}
            ELSE {transient("checking_logs_map")
                     \o <<Op("push", "", 0), Op("for", "", o.k - 1)>>,
                  transient("all_skipped_during_size_check")
                     \o <<Op("for", "", o.k - 1)>>}
      [] o.op = "match_large" ->
            \* clean_my_mac, lines 181-236
            {transient("all_failed_entries")}
            \cup {IF dry THEN <<Op("for_large", "", n)>>
                  ELSE <<Op("lock", "all_paths_to_clean_after_check", 0)>>
                       \o [j \in 1..n |-> Op("push", "", 0)]
                       \o <<Op("unlock", "all_paths_to_clean_after_check", 0)>> :
                     n \in 0..MaxPaths}
      [] o.op = "for_large" ->
            \* clean_my_mac, lines 188-217
            IF o.k = 0 THEN {<<>>}
            ELSE {transient("large_files_to_display_in_dry_run_map")
                     \o <<Op("for_large", "", o.k - 1)>>,
                  transient("all_skipped_during_size_check")
                     \o <<Op("for_large", "", o.k - 1)>>}
      [] o.op = "remove_path" ->
            \* clean_my_mac, lines 272-300: Ok(_) or Err(e)
            {transient(ActLogMutex) \o transient("all_successful_entries_map")
                \o <<Op("fetch_add", "", 0)>>,
             transient("all_failed_entries")}

\* the closure of the first par_iter, lines 107-176
probe_closure == <<Op("clean", "", 0), Op("match_clean", "", 0)>>

\* the closure of the second par_iter, lines 269-302
act_closure == <<Op("remove_path", "", 0)>>

\* clean_my_mac itself, lines 107-481
clean_my_mac(dry) ==
    <<Op("fork", "probe", 0), Op("join", "probe", 0),
      Op("clean", "", 0), Op("match_large", "", 0),
      Op("lock", "checking_logs_map", 0),
      Op("lock", "all_paths_to_clean_after_check", 0),
      Op("fork", "act", 0), Op("join", "act", 0),
      Op("lock", "cleaning_logs_map", 0),
      Op("lock", "all_successful_entries_map", 0),
      Op("lock", "all_failed_entries", 0)>>
    \o (IF dry THEN transient("large_files_to_display_in_dry_run_map") ELSE <<>>)
    \o transient("all_skipped_during_size_check")
    \o <<Op("return", "", 0)>>

NewThread(ops) == [ops |-> ops, calls |-> 0]

Todo(t) == IF t \in DOMAIN thread /\ thread[t].ops # <<>> THEN Head(thread[t].ops)
           ELSE Op("", "", 0)

LockVars == <<engine, uninstall_name, dry_run, ignore, tmpdir, prot, noread, fs0,
              runs, previous_run, shown, fs, removed, recreated, candidates,
              info_logs, ci, paths_explicitly_ignored, ignored_paths_logs,
              successful_entries, failed_entries, skipped_during_size_check,
              warning_logs, total_freed, all_successful_entries_map,
              large_files_to_display_in_dry_run_map, total_row>>

\* bin/osx.rs main, line 25: clean_my_mac is called
LockStart ==
    /\ engine = "orchestrator" /\ phase = "filter" /\ DOMAIN thread = {}
    /\ thread' = (MainThread :> NewThread(clean_my_mac(dry_run)))
    /\ UNCHANGED <<LockVars, held, phase, task>>

\* Mutex::lock: the thread goes on when the mutex is free
ThreadLock(t) ==
    /\ Todo(t).op = "lock" /\ held[Todo(t).m] = NoThread
    /\ held' = [held EXCEPT ![Todo(t).m] = t]
    /\ thread' = [thread EXCEPT ![t].ops = Tail(@)]
    /\ UNCHANGED <<LockVars, phase, task>>

\* the guard is dropped
ThreadUnlock(t) ==
    /\ Todo(t).op = "unlock" /\ held[Todo(t).m] = t
    /\ held' = [held EXCEPT ![Todo(t).m] = NoThread]
    /\ thread' = [thread EXCEPT ![t].ops = Tail(@)]
    /\ UNCHANGED <<LockVars, phase, task>>

\* clean_my_mac, lines 132-137 and 221-225: a path joins
\* all_paths_to_clean_after_check, under the guard the thread holds
ThreadPush(t) ==
    /\ Todo(t).op = "push" /\ held["all_paths_to_clean_after_check"] = t
    /\ task' = Append(task, NewTask("", <<>>))
    /\ thread' = [thread EXCEPT ![t].ops = Tail(@)]
    /\ UNCHANGED <<LockVars, held, phase>>

\* a step of a thread that branches on what it finds
ThreadBranch(t) ==
    /\ Todo(t).op \in {"clean", "match_clean", "for", "match_large", "for_large"}
    /\ \E todo \in Expand(Todo(t), dry_run) :
          thread' = [thread EXCEPT ![t].ops = todo \o Tail(@)]
    /\ UNCHANGED <<LockVars, held, phase, task>>

\* clean_my_mac, line 272: remove_path on the path of this worker
ActRemovePath(t) ==
    /\ Todo(t).op = "remove_path"
    /\ \E todo \in Expand(Todo(t), dry_run) :
          thread' = [thread EXCEPT ![t].ops = todo \o Tail(@), ![t].calls = @ + 1]
    /\ UNCHANGED <<LockVars, held, phase, task>>

\* clean_my_mac, line 290: total_freed_space.fetch_add
ActFetchAdd(t) ==
    /\ Todo(t).op = "fetch_add"
    /\ thread' = [thread EXCEPT ![t].ops = Tail(@)]
    /\ UNCHANGED <<LockVars, held, phase, task>>

\* clean_my_mac, line 107: par_iter over the standard categories
MainForkProbe ==
    /\ Todo(MainThread) = Op("fork", "probe", 0)
    /\ thread' = [t \in {MainThread} \cup {<<"probe", k>> : k \in 1..MaxCleaners} |->
                     IF t = MainThread
                     THEN [thread[t] EXCEPT !.ops = Tail(@)]
                     ELSE NewThread(probe_closure)]
    /\ phase' = "probe"
    /\ UNCHANGED <<LockVars, held, task>>

\* clean_my_mac, line 269: par_iter over the paths, under the guard taken at
\* line 268
MainForkAct ==
    /\ Todo(MainThread) = Op("fork", "act", 0)
    /\ held["all_paths_to_clean_after_check"] = MainThread
    /\ thread' = [t \in (DOMAIN thread) \cup {<<"act", k>> : k \in 1..Len(task)} |->
                     IF t = MainThread
                     THEN [thread[t] EXCEPT !.ops = Tail(@)]
                     ELSE IF t \in DOMAIN thread THEN thread[t]
                     ELSE NewThread(act_closure)]
    /\ phase' = "act"
    /\ UNCHANGED <<LockVars, held, task>>

\* for_each returns when every closure has returned
MainJoin ==
    /\ Todo(MainThread).op = "join"
    /\ \A t \in DOMAIN thread : t[1] = Todo(MainThread).m => thread[t].ops = <<>>
    /\ thread' = [thread EXCEPT ![MainThread].ops = Tail(@)]
    /\ UNCHANGED <<LockVars, held, phase, task>>

\* clean_my_mac, line 480: Ok(()), and the guards of the function are
\* dropped
MainReturn ==
    /\ Todo(MainThread).op = "return"
    /\ held' = [m \in Mutexes |-> IF held[m] = MainThread THEN NoThread ELSE held[m]]
    /\ thread' = [thread EXCEPT ![MainThread].ops = Tail(@)]
    /\ phase' = "done"
    /\ UNCHANGED <<LockVars, task>>

Init ==
    /\ engine \in {"cleaner", "orchestrator", "uninstall"}
    /\ uninstall_name \in Names(engine)
    /\ dry_run \in BOOLEAN
    /\ ignore \in IgnoreLists(engine)
    /\ tmpdir \in TmpDirs(engine)
    /\ \/ /\ \E h \in Hazards(engine) : prot = h.prot /\ noread = h.noread
          /\ IF engine = "uninstall" THEN fs = UninstallDisk
             ELSE \E keep \in 0..MaxSize : fs = Disk(keep)
       \/ /\ engine = "orchestrator" /\ dry_run
          /\ ignore = <<>> /\ tmpdir = NoPath /\ prot = {} /\ noread = {}
          /\ fs = LargeDisk
       \/ /\ engine = "orchestrator"
          /\ ignore = <<>> /\ tmpdir = NoPath /\ prot = {}
          /\ noread = {<<"private", "tmp", "T", "d">>}
          /\ fs = NestedDisk
       \/ /\ engine \in {"cleaner", "orchestrator"}
          /\ ignore = <<>> /\ tmpdir = NoPath /\ prot = {} /\ noread = {}
          /\ fs = LinkDisk
    /\ fs0 = fs
    /\ removed = {}
    /\ recreated = 0
    /\ candidates = <<>>
    /\ info_logs = EmptyBag
    /\ phase = "filter"
    /\ ci = 1
    /\ task = <<>>
    /\ paths_explicitly_ignored = <<>>
    /\ ignored_paths_logs = <<>>
    /\ successful_entries = EmptyBag
    /\ failed_entries = EmptyBag
    /\ skipped_during_size_check = EmptyBag
    /\ warning_logs = EmptyBag
    /\ total_freed = 0
    /\ all_successful_entries_map = <<>>
    /\ large_files_to_display_in_dry_run_map = <<>>
    /\ total_row = -1
    /\ runs = 1
    /\ previous_run = <<>>
    /\ shown = <<>>
    /\ held = [m \in Mutexes |-> NoThread]
    /\ thread = <<>>

\* the steps of the command itself
Command ==
    \/ CleanerFilter
    \/ \E i \in DOMAIN task : CleanerProbe(i)
    \/ \E i \in DOMAIN task : CleanerWouldClean(i)
    \/ \E i \in DOMAIN task : CleanerRemove(i)
    \/ \E i \in DOMAIN task : CleanerRemeasure(i)
    \/ \E i \in DOMAIN task : CleanerFetchAdd(i)
    \/ \E i \in DOMAIN task : CleanerPushSuccess(i)
    \/ CleanerNext
    \/ CleanerFinish
    \/ OrchestratorStart
    \/ \E i \in DOMAIN task : OrchestratorProbe(i)
    \/ OrchestratorLargeFiles
    \/ \E i \in DOMAIN task : OrchestratorRemove(i)
    \/ \E i \in DOMAIN task : OrchestratorRecord(i)
    \/ \E i \in DOMAIN task : OrchestratorFetchAdd(i)
    \/ OrchestratorFinish
    \/ UninstallStart
    \/ \E i \in DOMAIN task : UninstallPath(i)
    \/ UninstallNext
    \/ UninstallFinish

Next ==
    \/ Command
    \/ \E q \in removed : EnvRecreate(q)
    \/ RunAgain

Spec == Init /\ [][Next]_vars

\* the runs whose progress is checked: those without an ignore list, a
\* TMPDIR or an unreadable directory.  The command's threads keep running:
\* main runs to its end, and rayon's par_iter hands every item to a worker
\* thread, which runs its closure to the end (clean, lines 145 and 200;
\* clean_my_mac, lines 119 and 269)
FairInit ==
    /\ Init
    /\ ignore = <<>> /\ tmpdir = NoPath /\ noread = {}
    /\ engine = "uninstall" \/ fs = Disk(MaxSize)

FairSpec == FairInit /\ [][Next]_vars /\ WF_vars(Command)

\* clean_my_mac lock by lock, apart from what it finds on the disk
LockInit ==
    /\ Init
    /\ engine = "orchestrator" /\ ignore = <<>> /\ tmpdir = NoPath
    /\ prot = {} /\ noread = {} /\ fs = Disk(0)

LockNext ==
    \/ LockStart
    \/ \E t \in DOMAIN thread : ThreadLock(t)
    \/ \E t \in DOMAIN thread : ThreadUnlock(t)
    \/ \E t \in DOMAIN thread : ThreadPush(t)
    \/ \E t \in DOMAIN thread : ThreadBranch(t)
    \/ \E t \in DOMAIN thread : ActRemovePath(t)
    \/ \E t \in DOMAIN thread : ActFetchAdd(t)
    \/ MainForkProbe
    \/ MainForkAct
    \/ MainJoin
    \/ MainReturn

\* the operating system keeps scheduling every thread that can run, and a
\* free mutex is given to a thread that waits for it
LockSpec == LockInit /\ [][LockNext]_vars /\ WF_vars(LockNext)

\* ---------------------------------------------------------- presentation
\* u64 as f64: exact for every value below 2^53, so for every value here
as_f64(bytes) == bytes

\* format!("{:.2}", b as f64 / unit as f64), unit being a power of 1024: the
\* quotient is exact, and is rounded to two decimals, a tie going to the even
\* digit.  The remainder is scaled in two parts, which keeps every
\* intermediate value below 2^31
fixed2(b, unit) ==
    LET whole == b \div unit
        hi == (b % unit) \div 1024
        lo == (b % unit) % 1024
        v == unit \div 1024
        x == (hi * 100) + ((lo * 100) \div 1024)
        h == x \div v
        r == ((x % v) * 1024) + ((lo * 100) % 1024)
        up == IF 2 * r > unit \/ (2 * r = unit /\ h % 2 = 1) THEN 1 ELSE 0
        hundredths == whole * 100 + h + up
        frac == hundredths % 100
    IN ToString(hundredths \div 100) \o "."
       \o (IF frac < 10 THEN "0" ELSE "") \o ToString(frac)

\* cleaner.rs format_bytes
format_bytes(bytes) ==
    LET KB == 1024
        MB == KB * 1024
        GB == MB * 1024
    IN IF bytes >= GB THEN fixed2(bytes, GB) \o " GB"
       ELSE IF bytes >= MB THEN fixed2(bytes, MB) \o " MB"
       ELSE IF bytes >= KB THEN fixed2(bytes, KB) \o " KB"
       ELSE ToString(bytes) \o " bytes"

\* cleaners/mod.rs format_bytes
cleaners_format_bytes(bytes) ==
    LET KB == 1024
        MB == KB * 1024
        GB == MB * 1024
    IN IF bytes >= GB THEN fixed2(bytes, GB) \o " GB"
       ELSE IF bytes >= MB THEN fixed2(bytes, MB) \o " MB"
       ELSE IF bytes >= KB THEN fixed2(bytes, KB) \o " KB"
       ELSE ToString(bytes) \o " bytes"

\* bytes_to_human with > where it has >=
bytes_to_human_above(bytes) ==
    LET KB == 1024
        MB == KB * 1024
        GB == MB * 1024
        b == as_f64(bytes)
    IN IF b > GB THEN fixed2(bytes, GB) \o " GB"
       ELSE IF b > MB THEN fixed2(bytes, MB) \o " MB"
       ELSE IF b > KB THEN fixed2(bytes, KB) \o " KB"
       ELSE ToString(bytes) \o " bytes"

\* utils/filesystem.rs bytes_to_human
bytes_to_human(bytes) ==
    LET KB == 1024
        MB == KB * 1024
        GB == MB * 1024
        b == as_f64(bytes)
    IN IF b >= GB THEN fixed2(bytes, GB) \o " GB"
       ELSE IF b >= MB THEN fixed2(bytes, MB) \o " MB"
       ELSE IF b >= KB THEN fixed2(bytes, KB) \o " KB"
       ELSE ToString(bytes) \o " bytes"

\* the sizes that are formatted: those next to 0, next to each unit
\* threshold and next to 2^31, and some between
FormatInputs ==
    (0..Around)
    \cup UNION {(t - Around)..(t + Around) : t \in {1024, 1024 * 1024, 1024 * 1024 * 1024}}
    \cup {1024 + 128, 1024 + 384, 1536, 10 * 1024 - 1, 1024 * 1024 + 512 * 1024,
          LARGE_FILE_THRESHOLD_BYTES}
    \cup ((2147483646 - Around)..2147483646)

\* cleaner.rs clean_my_mac, line 547: the total of a run, formatted
ShowCleanerTotal(n) ==
    /\ shown' = [g \in (DOMAIN shown) \cup {"cleaner.rs format_bytes"} |->
                    IF g = "cleaner.rs format_bytes"
                    THEN [bytes |-> n, text |-> format_bytes(n)] ELSE shown[g]]
    /\ UNCHANGED <<engine, uninstall_name, dry_run, ignore, tmpdir, prot, noread, fs0,
                   held, thread,
                   runs, previous_run, fs, removed, recreated, candidates, info_logs,
                   phase, ci, task, paths_explicitly_ignored, ignored_paths_logs,
                   successful_entries, failed_entries, skipped_during_size_check,
                   warning_logs, total_freed, all_successful_entries_map,
                   large_files_to_display_in_dry_run_map, total_row>>

\* cleaner_orchestrator.rs clean_my_mac, line 340: the total of a run,
\* formatted
ShowOrchestratorTotal(n) ==
    /\ shown' = [g \in (DOMAIN shown) \cup {"cleaners/mod.rs format_bytes"} |->
                    IF g = "cleaners/mod.rs format_bytes"
                    THEN [bytes |-> n, text |-> cleaners_format_bytes(n)] ELSE shown[g]]
    /\ UNCHANGED <<engine, uninstall_name, dry_run, ignore, tmpdir, prot, noread, fs0,
                   held, thread,
                   runs, previous_run, fs, removed, recreated, candidates, info_logs,
                   phase, ci, task, paths_explicitly_ignored, ignored_paths_logs,
                   successful_entries, failed_entries, skipped_during_size_check,
                   warning_logs, total_freed, all_successful_entries_map,
                   large_files_to_display_in_dry_run_map, total_row>>

\* cleaner_orchestrator.rs clean_my_mac, line 123: the size of a probed
\* path, formatted
ShowProbedSize(n) ==
    /\ shown' = [g \in (DOMAIN shown) \cup {"filesystem.rs bytes_to_human"} |->
                    IF g = "filesystem.rs bytes_to_human"
                    THEN [bytes |-> n, text |-> bytes_to_human(n)] ELSE shown[g]]
    /\ UNCHANGED <<engine, uninstall_name, dry_run, ignore, tmpdir, prot, noread, fs0,
                   held, thread,
                   runs, previous_run, fs, removed, recreated, candidates, info_logs,
                   phase, ci, task, paths_explicitly_ignored, ignored_paths_logs,
                   successful_entries, failed_entries, skipped_during_size_check,
                   warning_logs, total_freed, all_successful_entries_map,
                   large_files_to_display_in_dry_run_map, total_row>>

FormatInit ==
    /\ Init
    /\ engine = "cleaner" /\ dry_run /\ ignore = <<>> /\ tmpdir = NoPath
    /\ prot = {} /\ noread = {} /\ fs = Disk(0)

FormatNext ==
    \/ \E n \in FormatInputs : ShowCleanerTotal(n)
    \/ \E n \in FormatInputs : ShowOrchestratorTotal(n)
    \/ \E n \in FormatInputs : ShowProbedSize(n)

\* the formatters applied to sizes, apart from any run
FormatSpec == FormatInit /\ [][FormatNext]_vars

\* ---------------------------------------------------------------- claims
RECURSIVE SumF(_)
SumF(g) == IF DOMAIN g = {} THEN 0
           ELSE LET x == CHOOSE x \in DOMAIN g : TRUE IN
                g[x] + SumF([y \in (DOMAIN g) \ {x} |-> g[y]])

\* the bytes of all the Success entries
SuccessBytes == SumF([e \in BagToSet(successful_entries) |->
                        e.bytes * CopiesIn(e, successful_entries)])

\* how many entries of a collection are for the path p
CountIn(B, p) == SumF([e \in {x \in BagToSet(B) : x.path = p} |-> CopiesIn(e, B)])

Outcomes(p) == CountIn(successful_entries, p) + CountIn(failed_entries, p)
               + CountIn(skipped_during_size_check, p)

Occurrences(ps, p) == Cardinality({k \in DOMAIN ps : ps[k] = p})

\* the object a path named when the command started
Object(p) == canonical_or_self(fs0, p)

\* the paths the --ignore list names
ignore_paths == {PathFrom(ignore[k]).comps : k \in DOMAIN ignore}

\* the path p equals or descends from an ignore pattern, as written or as
\* the object it names
UnderIgnore(p) ==
    \E g \in ignore_paths : starts_with(p, g) \/ starts_with(Object(p), Object(g))

\* the path p names the temp root or the active temporary directory
IsTempDir(p) ==
    \/ Object(p) = PRIVATE_TMP
    \/ tmpdir # NoPath /\ Object(p) = Object(tmpdir)

Cleanup == engine \in {"cleaner", "orchestrator"}

\* C1: in a live cleanup run no object that equals or descends from an
\* ignore pattern is deleted, directly or within the recursive removal of a
\* candidate that contains it
C1_IgnoredNeverDeleted ==
    (Cleanup /\ ~dry_run) => \A q \in removed : ~UnderIgnore(q)

\* a live run has removed a file the ignore list names, with the directory
\* that is its non-ignored candidate
C1_IgnoredFileDeleted ==
    /\ Cleanup /\ ~dry_run /\ ignore = <<"/Library/Caches/keep">> /\ recreated = 0
    /\ <<"Library", "Caches", "keep">> \in removed
    /\ \E i \in DOMAIN task : task[i].path = <<"Library", "Caches">>

\* C2: a cleanup run, dry or live, never removes the temp root or the
\* directory TMPDIR names, as a candidate or beneath one
C2_TempDirsNeverRemoved ==
    Cleanup => /\ PRIVATE_TMP \notin removed
               /\ tmpdir # NoPath => Object(tmpdir) \notin removed

\* a live run has removed the directory TMPDIR names beneath the candidate
\* /private/var/folders
C2_ActiveTempDirRemoved ==
    /\ engine = "cleaner" /\ tmpdir = <<"var", "folders", "T">> /\ recreated = 0
    /\ <<"private", "var", "folders", "T">> \in removed
    /\ \E i \in DOMAIN task : task[i].path = <<"private", "var", "folders">>

\* C3: once the Act phase has joined, every candidate measured with a
\* non-zero size has exactly one outcome among Success, Failure and Skip for
\* its path
C3_ExactlyOneOutcome ==
    (Cleanup /\ Settled) =>
        \A i \in DOMAIN task :
            (task[i].st \in {"nofree", "done"} /\ task[i].size > 0)
                => Outcomes(task[i].path) = 1

\* a candidate whose deletion failed part-way has a Failure and a Success
C3_FailureAndSuccess ==
    /\ engine = "cleaner" /\ Settled /\ recreated = 0
    /\ \E i \in DOMAIN task :
          /\ task[i].st = "done"
          /\ CountIn(failed_entries, task[i].path) = 1
          /\ CountIn(successful_entries, task[i].path) = 1

\* C4: whenever the Act workers have joined, the Run Total is the sum of
\* the bytes of the Success entries (in the orchestrator also the sum of the
\* values of the aggregated success map), the "Total" row shows it, and the
\* Run Total never decreases while the run lasts
C4_RunTotalIsSumOfSuccesses ==
    /\ [](Cleanup /\ Settled =>
            /\ total_freed = SuccessBytes
            /\ engine = "orchestrator" => total_freed = SumF(all_successful_entries_map)
            /\ phase = "done" => total_row = total_freed)
    /\ [][runs' = runs => total_freed' >= total_freed]_vars

\* a finished run with several Success entries
C4_SeveralSuccesses ==
    /\ Cleanup /\ phase = "done" /\ total_row > 0
    /\ Cardinality(BagToSet(successful_entries)) >= 2

\* C5: a candidate that equals or descends from an ignore pattern has no
\* worker and no outcome, and the ignored-by-user log reports it exactly once
C5_IgnoredOnlyLogged ==
    Cleanup =>
        \A k \in DOMAIN candidates :
            LET p == candidates[k] IN
            UnderIgnore(p) =>
                /\ \A i \in DOMAIN task : task[i].path # p
                /\ Outcomes(p) = 0
                /\ Occurrences(ignored_paths_logs, p) = Occurrences(candidates, p)

\* the orchestrator has filtered out a candidate the ignore list names
C5_IgnoredInOrchestrator ==
    /\ engine = "orchestrator" /\ phase = "done"
    /\ ignore = <<"/Library/Caches">>
    /\ Occurrences(candidates, <<"Library", "Caches">>) = 1
    /\ \A i \in DOMAIN task : task[i].path # <<"Library", "Caches">>

\* C6: with --dry-run neither cleanup nor uninstall changes the filesystem
C6_DryRunMutatesNothing == dry_run => fs = fs0 /\ removed = {}

\* a finished dry run that found something to delete: an uninstall that
\* logged "Would delete", or a cleanup with a Success entry
C6_DryRunFoundPaths ==
    /\ dry_run /\ phase = "done"
    /\ \/ engine = "uninstall" /\ info_logs # EmptyBag
       \/ engine = "orchestrator" /\ successful_entries # EmptyBag

\* C7: a finished run has, for every non-ignored candidate that names the
\* temp root or the active temporary directory, one Skip with the reason
\* "Active system temporary directory" and no other outcome
C7_TempDirsSkipped ==
    (Cleanup /\ phase = "done") =>
        \A k \in DOMAIN candidates :
            LET p == candidates[k] IN
            (IsTempDir(p) /\ ~UnderIgnore(p)) =>
                /\ Outcomes(p) = 1
                /\ [path |-> p, reason |-> "Active system temporary directory"]
                      \in BagToSet(skipped_during_size_check)

\* the orchestrator has a Success for the directory TMPDIR names
C7_ActiveTempDirSuccess ==
    /\ engine = "orchestrator" /\ phase = "done" /\ tmpdir = <<"tmp", "T">>
    /\ recreated = 0
    /\ CountIn(successful_entries, <<"private", "tmp", "T">>) > 0

\* the worker i measured size 0 for its candidate
MeasuredZero(i) ==
    \/ task[i].st = "empty"
    \/ engine = "orchestrator" /\ task[i].st \notin {"probe", "out"} /\ task[i].size = 0

\* C8: a candidate whose measured size is 0 has no outcome
C8_EmptyHasNoOutcome ==
    (Cleanup /\ Settled) =>
        \A i \in DOMAIN task : MeasuredZero(i) => Outcomes(task[i].path) = 0

\* the orchestrator has a Success of 0 bytes
C8_EmptySuccess ==
    /\ engine = "orchestrator" /\ phase = "done" /\ recreated = 0
    /\ \E i \in DOMAIN task :
          /\ MeasuredZero(i)
          /\ [path |-> task[i].path, bytes |-> 0] \in BagToSet(successful_entries)

\* remove_path returned Ok for the path p
DeleteOk(p) == [path |-> p, error |-> "Failed to delete"] \notin BagToSet(failed_entries)

\* C9: in a live run a path whose deletion succeeded and whose re-measured
\* size shows nothing freed has a Skip with the reason "No space freed" and
\* no Success
C9_NoSpaceFreedIsSkip ==
    (engine = "cleaner" /\ ~dry_run) =>
        \A i \in DOMAIN task :
            (task[i].st = "nofree" /\ DeleteOk(task[i].path)) =>
                /\ [path |-> task[i].path, reason |-> "No space freed"]
                      \in BagToSet(skipped_during_size_check)
                /\ CountIn(successful_entries, task[i].path) = 0

\* a deleted path was put back before its re-measurement, and has no outcome
C9_NothingFreedNoOutcome ==
    /\ engine = "cleaner" /\ ~dry_run
    /\ \E i \in DOMAIN task :
          /\ task[i].st = "nofree" /\ DeleteOk(task[i].path)
          /\ Outcomes(task[i].path) = 0

\* C10: in a live run the bytes of a Success are max(0, size before - size
\* re-measured after the deletion), and are more than 0
C10_FreedIsSizeDifference ==
    (Cleanup /\ ~dry_run) =>
        /\ \A e \in BagToSet(successful_entries) : e.bytes > 0
        /\ \A i \in DOMAIN task :
              /\ (engine = "cleaner" /\ task[i].st \in {"add", "push"})
                    => task[i].freed > 0 /\ task[i].freed <= task[i].size
              /\ (engine = "orchestrator" /\ task[i].st = "succ")
                    => task[i].size = saturating_sub(task[i].size,
                                                     calculate_dir_size(fs, task[i].path).size)

\* the orchestrator records the size measured before the deletion for a path
\* that was put back
C10_RecordedWithoutRemeasure ==
    /\ engine = "orchestrator" /\ ~dry_run
    /\ \E i \in DOMAIN task :
          /\ task[i].st = "succ" /\ task[i].size > 0
          /\ calculate_dir_size(fs, task[i].path).size = task[i].size

\* the worker i holds a Probe Result: its candidate exists, is not ignored,
\* and was measured with a size that is not 0
ProbeResult(i) == task[i].st \notin {"probe", "out", "empty"} /\ task[i].size > 0

\* C11: in a dry run the Success entries are the Probe Results, each with
\* the probed size as its bytes (so none is of 0 bytes and a candidate
\* measured as empty has none), and the "Total" row is the sum of them
C11_DryRunSuccessesAreProbeResults ==
    (Cleanup /\ dry_run) =>
        /\ \A e \in BagToSet(successful_entries) : e.bytes > 0
        /\ Settled =>
              \A i \in DOMAIN task :
                 /\ ProbeResult(i) =>
                       [path |-> task[i].path, bytes |-> task[i].size]
                          \in BagToSet(successful_entries)
                 /\ MeasuredZero(i) => CountIn(successful_entries, task[i].path) = 0
        /\ phase = "done" => total_row = SuccessBytes

\* a dry run of the orchestrator ends with a Success of 0 bytes for a
\* candidate measured as empty
C11_DryRunEmptySuccess ==
    /\ engine = "orchestrator" /\ dry_run /\ phase = "done"
    /\ \E i \in DOMAIN task :
          /\ MeasuredZero(i)
          /\ [path |-> task[i].path, bytes |-> 0] \in BagToSet(successful_entries)
    /\ \E i \in DOMAIN task : ProbeResult(i)
    /\ total_row = SuccessBytes

\* the worker i leaves its probe in this step, and its candidate, which no
\* safety exclusion names, does not exist
ProbesMissing(i) ==
    /\ i \in DOMAIN task /\ i \in DOMAIN task'
    /\ task[i].st = "probe" /\ task'[i].st # "probe"
    /\ ~exists(fs, task[i].path)
    /\ ~IsTempDir(task[i].path)

\* C12: a candidate that passed the ignore filter and does not exist when it
\* is probed gets a Failure with the reason "Not found", gets no Skip, and
\* does not reach the second pass
C12_MissingCandidateIsFailure ==
    [][\A i \in DOMAIN task :
          (Cleanup /\ ProbesMissing(i)) =>
              /\ failed_entries' = failed_entries
                    (+) One([path |-> task[i].path, error |-> "Not found"])
              /\ skipped_during_size_check' = skipped_during_size_check
              /\ task'[i].st = "out"]_vars

\* the orchestrator has probed a candidate that does not exist: it has a
\* Skip and no Failure
C12_MissingCandidateSkipped ==
    /\ engine = "orchestrator" /\ recreated = 0
    /\ \E i \in DOMAIN task :
          /\ task[i].st = "out"
          /\ ~exists(fs0, task[i].path) /\ ~exists(fs, task[i].path)
          /\ ~IsTempDir(task[i].path)
          /\ [path |-> task[i].path,
              reason |-> "Could not determine size or access path."]
                \in BagToSet(skipped_during_size_check)
          /\ CountIn(failed_entries, task[i].path) = 0

C14_IgnoredCandidatesExcluded ==
    Cleanup => \A i \in DOMAIN task : ~UnderIgnore(task[i].path)

\* the orchestrator has recorded a Success for /Library/Caches in a run
\* whose ignore list names that directory with a separator at its end
C14_TrailingSeparatorNotExcluded ==
    /\ engine = "orchestrator" /\ ignore = <<"/Library/Caches/">>
    /\ UnderIgnore(<<"Library", "Caches">>)
    /\ CountIn(successful_entries, <<"Library", "Caches">>) > 0

\* C15: a dry run of the cleanup command that follows another one, with the
\* same ignore list and the filesystem unchanged, ends with the same "Total"
\* row and the same Success entries as the one before, however the workers
\* of either run were scheduled
C15_DryRunRepeats ==
    (Cleanup /\ dry_run /\ runs > 1 /\ phase = "done") =>
        /\ fs = fs0
        /\ total_row = previous_run.total
        /\ successful_entries = previous_run.successes

\* a second dry run has returned, with several Success entries
C15_SecondDryRunDone ==
    /\ Cleanup /\ dry_run /\ runs = 2 /\ phase = "done"
    /\ total_row > 0
    /\ Cardinality(BagToSet(successful_entries)) > 1

\* the uninstall worker i handles, in this step, a path that does not exist
HandlesMissing(i) ==
    /\ i \in DOMAIN task /\ i \in DOMAIN task'
    /\ task[i].st = "probe" /\ task'[i].st = "done"
    /\ ~exists(fs, task[i].path)

\* C16: the uninstall flow handles each path on its own: a path that does
\* not exist gets the warning "Not found" and nothing is deleted for it, and
\* whatever paths were not found or not deleted, every path of both
\* uninstallers is handled and the command returns
C16_UninstallBestEffort ==
    /\ [][\A i \in DOMAIN task :
            (engine = "uninstall" /\ HandlesMissing(i)) =>
                /\ warning_logs' = warning_logs
                      (+) One([path |-> task[i].path, msg |-> "Not found"])
                /\ fs' = fs /\ info_logs' = info_logs]_vars
    /\ engine = "uninstall" =>
          <>(phase = "done" /\ ci = Len(uninstallers) /\ Settled)

\* a live uninstall has returned with a path not found, a path whose
\* removal failed, and another path removed
C16_UninstalledWithFailures ==
    /\ engine = "uninstall" /\ ~dry_run /\ phase = "done"
    /\ \E e \in BagToSet(warning_logs) : e.msg = "Not found"
    /\ \E e \in BagToSet(warning_logs) :
          /\ e.msg = "Failed to delete"
          /\ \E q \in removed : ~starts_with(Object(q), Object(e.path))

\* the objects under the fixed user directories of the large files scan
UserDirObjects ==
    {q \in DOMAIN fs :
        \E k \in DOMAIN common_user_dirs :
            Len(q) > Len(HOME) + 1 /\ starts_with(q, HOME \o <<common_user_dirs[k]>>)}

LargeFilesFound ==
    {large_files_find_paths(fs, 1)[k] : k \in DOMAIN large_files_find_paths(fs, 1)}

\* C17: the large files scan returns exactly the regular files under the
\* fixed user directories whose size is at least the threshold of 100 MiB:
\* one of exactly that size is returned, one of a byte less is not, and no
\* directory and no symbolic link is
C17_LargeFilesAreRegularFiles ==
    engine = "orchestrator" =>
        LargeFilesFound =
            {q \in UserDirObjects :
                fs[q].kind = "file" /\ fs[q].size >= 100 * 1024 * 1024}

\* the orchestrator has listed, as a large file, a symbolic link to one,
\* next to the file of the threshold size and the file in a directory, and
\* without the file one byte smaller
C17_LinkListedAsLargeFile ==
    /\ engine = "orchestrator" /\ phase = "done" /\ fs = LargeDisk
    /\ \E k \in DOMAIN candidates :
          candidates[k] = HOME \o <<"Downloads", "lnk">> /\ fs[candidates[k]].kind = "link"
    /\ \E k \in DOMAIN candidates : candidates[k] = HOME \o <<"Downloads", "big">>
    /\ \E k \in DOMAIN candidates : candidates[k] = HOME \o <<"Downloads", "sub", "deep">>
    /\ ~\E k \in DOMAIN candidates : candidates[k] = HOME \o <<"Downloads", "small">>

\* the candidates found so far that do not exist
MissingCandidates == {candidates[k] : k \in {j \in DOMAIN candidates : ~exists(fs, candidates[j])}}

\* C18: each of the three size routines gives size 0 and no error for a
\* path that does not exist
C18_MissingPathMeasuresZero ==
    \A p \in MissingCandidates :
        /\ get_size(fs, p).ok /\ get_size(fs, p).size = 0
        /\ calculate_dir_size(fs, p).ok /\ calculate_dir_size(fs, p).size = 0
        /\ calculate_size(fs, p).some /\ calculate_size(fs, p).size = 0

\* the orchestrator has measured a candidate that does not exist:
\* calculate_size gave None for it, where get_size and calculate_dir_size
\* give Ok(0)
C18_CalculateSizeGaveNone ==
    /\ engine = "orchestrator"
    /\ \E i \in DOMAIN task :
          /\ task[i].st = "out" /\ task[i].path \in MissingCandidates
          /\ ~calculate_size(fs, task[i].path).some
          /\ get_size(fs, task[i].path).ok /\ get_size(fs, task[i].path).size = 0
          /\ calculate_dir_size(fs, task[i].path).ok
          /\ calculate_dir_size(fs, task[i].path).size = 0

\* the unit the claim states for a size
UnitOf(n) ==
    IF n < 1024 THEN " bytes"
    ELSE IF n < 1024 * 1024 THEN " KB"
    ELSE IF n < 1024 * 1024 * 1024 THEN " MB"
    ELSE " GB"

\* C19: each formatter ends its text with the unit of the binary
\* thresholds (bytes below 1024, KB below 1024^2, MB below 1024^3, GB from
\* there on), a size below 1024 is shown as the exact integer, and
\* formatters given the same size give the same text
C19_UnitsByBinaryThresholds ==
    /\ \A g \in DOMAIN shown :
          /\ ends_with(shown[g].text, UnitOf(shown[g].bytes))
          /\ shown[g].bytes < 1024 =>
                shown[g].text = ToString(shown[g].bytes) \o " bytes"
    /\ \A g, h \in DOMAIN shown :
          shown[g].bytes = shown[h].bytes => shown[g].text = shown[h].text

\* the three formatters have formatted the size 1024, as "1.00 KB"
C19_ThresholdShownInKB ==
    /\ Cardinality(DOMAIN shown) = 3
    /\ \A g \in DOMAIN shown : shown[g].bytes = 1024 /\ shown[g].text = "1.00 KB"

\* the Probe Results of the batch: the paths the first pass kept for the
\* second one, each with the size it measured
ProbeResults ==
    {[path |-> task[i].path, size |-> task[i].size] :
        i \in {j \in DOMAIN task : task[j].st \notin {"probe", "out", "empty"}}}

\* a candidate of the batch is still being measured
BeingMeasured == \E j \in DOMAIN task : task[j].st = "probe"

\* the second pass of the batch has begun: a worker is past "ready"
ActBegun ==
    \E i \in DOMAIN task : task[i].st \in {"size", "push", "succ", "add", "nofree", "done"}

\* this step is a deletion or a simulated deletion: a worker leaves "ready"
ActStep ==
    \E i \in DOMAIN task :
        /\ i \in DOMAIN task'
        /\ task[i].st = "ready" /\ task'[i].st # "ready"

\* C20: in a cleanup, no worker deletes or simulates the deletion of a path
\* while a candidate of the batch is still being measured, no object is
\* removed meanwhile, and once a worker has begun the second pass the set
\* of Probe Results stays as it is until the batch is dropped
C20_ActAfterProbeJoined ==
    [][Cleanup =>
          /\ (ActStep \/ removed' # removed) => ~BeingMeasured
          /\ ActBegun => (ProbeResults' = ProbeResults \/ task' = <<>>)]_vars

\* the second pass is under way on a batch of several Probe Results, one of
\* them still to be acted on, with a candidate the first pass left out
C20_ActUnderWay ==
    /\ Cleanup /\ ActBegun
    /\ Cardinality(ProbeResults) > 1
    /\ \E i \in DOMAIN task : task[i].st = "ready"
    /\ \E i \in DOMAIN task : task[i].st \in {"out", "empty"}

\* the worker i calls remove_path in this step of a live run, and the call
\* returns an error
DeleteErr(i) ==
    /\ i \in DOMAIN task /\ i \in DOMAIN task'
    /\ ~dry_run /\ task[i].st = "ready" /\ task'[i].st # "ready"
    /\ \A r \in remove_path(fs, task[i].path, FALSE) : ~r.ok

\* the worker i measures its path again in this step
Remeasures(i) ==
    /\ i \in DOMAIN task /\ i \in DOMAIN task'
    /\ task[i].st = "size" /\ task'[i].st # "size"

\* C21: in a live cleanup run, a delete that returns an error adds one Failure
\* for the path, and a path with such a Failure is not measured again, has no
\* Success and no Skip, and adds nothing to the Run Total
C21_DeleteErrorStopsThePath ==
    /\ [][Cleanup =>
            \A i \in DOMAIN task :
               /\ DeleteErr(i) =>
                     CountIn(failed_entries', task[i].path)
                        = CountIn(failed_entries, task[i].path) + 1
               /\ Remeasures(i) => DeleteOk(task[i].path)]_vars
    /\ [](Cleanup /\ ~dry_run =>
            \A i \in DOMAIN task :
               ~DeleteOk(task[i].path) =>
                  /\ task[i].freed = 0
                  /\ CountIn(successful_entries, task[i].path) = 0
                  /\ CountIn(skipped_during_size_check, task[i].path) = 0)

\* a live run of cleaner.rs has measured again a path whose delete returned
\* an error, and has added what it found freed to the Run Total
C21_RemeasuredAfterDeleteError ==
    /\ engine = "cleaner" /\ ~dry_run /\ recreated = 0
    /\ \E i \in DOMAIN task :
          /\ ~DeleteOk(task[i].path)
          /\ task[i].st = "done" /\ task[i].freed > 0
          /\ total_freed >= task[i].freed

\* the paths the Temporary Files source of the engine returned when the
\* command started, among the candidates found so far
TemporaryFilesCandidates ==
    {candidates[k] : k \in DOMAIN candidates}
    \cap (IF engine = "cleaner"
          THEN {find_paths(fs0, "Temporary Files")[k] :
                   k \in DOMAIN find_paths(fs0, "Temporary Files")}
          ELSE {temporary_files_find_paths(fs0, 1)[k] :
                   k \in DOMAIN temporary_files_find_paths(fs0, 1)})

\* the temp roots either source knows, as the objects they name
TempRoots ==
    {Object(r) : r \in {temp_dirs_to_scan[k] : k \in DOMAIN temp_dirs_to_scan}
                       \cup {find_paths(fs0, "Temporary Files")[k] :
                                k \in DOMAIN find_paths(fs0, "Temporary Files")}}

\* p names the directory TMPDIR names, as written or as the same object
IsActiveTemp(p) == tmpdir # NoPath /\ (p = tmpdir \/ Object(p) = Object(tmpdir))

\* C22: every path the Temporary Files source returns is an immediate child
\* of a temp root, is not a temp root, and is not the directory TMPDIR names,
\* whether TMPDIR spells it as the source does or through a symbolic link
C22_TemporaryFilesOnlyChildren ==
    Cleanup =>
        \A p \in TemporaryFilesCandidates :
            /\ p # <<>> /\ Object(Parent(p)) \in TempRoots
            /\ Object(p) \notin TempRoots
            /\ ~IsActiveTemp(p)

\* temporary_files.rs has returned the directory that TMPDIR names through
\* the /tmp symbolic link
C22_ActiveTempDirReturned ==
    /\ engine = "orchestrator" /\ tmpdir = <<"tmp", "T">>
    /\ <<"private", "tmp", "T">> \in TemporaryFilesCandidates

\* the directories below the directory p names that cannot be read
UnreadableBelow(p) ==
    {q \in noread \cap DOMAIN fs0 : q # Object(p) /\ starts_with(q, Object(p))}

\* the object q below the directory p names, spelled as an entry of p
SpelledBelow(p, q) == p \o SubSeq(q, Len(Object(p)) + 1, Len(q))

\* the bytes of the files below the directory p names that can be read
ReadableBytes(p) ==
    SumF([q \in {r \in Under(fs0, Object(p)) :
                    /\ fs0[r].kind = "file"
                    /\ \A u \in noread : ~starts_with(r, u)} |-> fs0[q].size])

\* C23: the first measurement of a candidate directory that holds a directory
\* which cannot be read succeeds, gives the bytes of what can be read, and
\* leaves a Skip for the unreadable directory
C23_UnreadableChildSkipped ==
    Cleanup =>
        \A i \in DOMAIN task :
            (/\ task[i].st # "probe"
             /\ Object(task[i].path) \notin noread
             /\ UnreadableBelow(task[i].path) # {}) =>
                /\ task[i].st # "out"
                /\ task[i].size = ReadableBytes(task[i].path)
                /\ \A q \in UnreadableBelow(task[i].path) :
                      CountIn(skipped_during_size_check,
                              SpelledBelow(task[i].path, q)) > 0

\* the orchestrator has given up the measurement of /private/tmp/T, which
\* holds a file and an unreadable directory: the Skip is for /private/tmp/T,
\* none is for the directory in it
C23_ParentMeasurementFailed ==
    /\ engine = "orchestrator" /\ noread = {<<"private", "tmp", "T", "d">>}
    /\ \E i \in DOMAIN task :
          /\ task[i].path = <<"private", "tmp", "T">> /\ task[i].st = "out"
          /\ calculate_size(fs0, task[i].path) = [some |-> TRUE, size |-> 1]
          /\ ~calculate_dir_size(fs0, task[i].path).ok
    /\ CountIn(skipped_during_size_check, <<"private", "tmp", "T">>) > 0
    /\ CountIn(skipped_during_size_check, <<"private", "tmp", "T", "d">>) = 0

\* what a measurement that follows no symbolic link gives for the path p:
\* the length of the link when p names one, else the lengths of the files
\* and of the links at and below the object, each once
OwnBytes(p) ==
    LET l == lstat(fs0, p) IN
    IF l = NoPath THEN 0
    ELSE SumF([q \in {r \in Under(fs0, l) : fs0[r].kind \in {"file", "link"}} |->
                  fs0[q].size])

\* the first pass has measured the path of worker i, with nothing below it
\* that cannot be read
Measured(i) ==
    /\ task[i].st \notin {"probe", "out"}
    /\ Object(task[i].path) \notin noread
    /\ UnreadableBelow(task[i].path) = {}

\* C24: the size measured for a candidate follows no symbolic link: it is
\* the length of the candidate when that is a file or a link, else the
\* lengths of the files and links below it, each counted once, also when a
\* link below it leads back to it
C24_LinksNotFollowed ==
    Cleanup =>
        \A i \in DOMAIN task :
            Measured(i) =>
                /\ task[i].size = OwnBytes(task[i].path)
                /\ engine = "orchestrator" =>
                      calculate_size(fs0, task[i].path).size = OwnBytes(task[i].path)

\* the orchestrator has measured /Library/Caches, which holds two files of
\* one byte, a link to one of them and a link back to /Library/Caches:
\* calculate_dir_size leaves the links out, calculate_size follows them and
\* counts the files again
C24_LinksFollowedOrDropped ==
    /\ engine = "orchestrator" /\ fs0 = LinkDisk
    /\ \E i \in DOMAIN task :
          /\ task[i].path = <<"Library", "Caches">> /\ task[i].st = "ready"
          /\ task[i].size = 2
          /\ calculate_size(fs0, task[i].path).size > 2
          /\ OwnBytes(task[i].path) = 34

\* the directory an outcome for the path p is to be reported under: p when
\* it named a directory as the command started, its parent otherwise
Representative(p) == IF is_dir(fs0, p) THEN p ELSE Parent(p)

\* the second pass of worker i has put its Success into the aggregated map
Aggregated(i) ==
    \/ task[i].st = "add"
    \/ task[i].st = "done" /\ DeleteOk(task[i].path)

\* C25: in the orchestrator every Success is held in the aggregated map
\* under the pair of its category and its representative directory, and the
\* value under that pair is the sum of the sizes of the Successes with it
C25_KeyedByRepresentativeDirectory ==
    engine = "orchestrator" =>
        \A i \in DOMAIN task :
            Aggregated(i) =>
                LET key == <<task[i].cleaner, Representative(task[i].path)>>
                    same == {j \in DOMAIN task :
                                /\ Aggregated(j)
                                /\ <<task[j].cleaner, Representative(task[j].path)>> = key}
                IN /\ key \in DOMAIN all_successful_entries_map
                   /\ all_successful_entries_map[key] = SumF([j \in same |-> task[j].size])

\* the Success of the candidate directory /Library/Caches is held under
\* /Library
C25_DirectoryUnderItsParent ==
    /\ engine = "orchestrator" /\ is_dir(fs0, <<"Library", "Caches">>)
    /\ \E i \in DOMAIN task :
          /\ task[i].path = <<"Library", "Caches">> /\ Aggregated(i)
          /\ task[i].size > 0
    /\ <<"System Caches", <<"Library">>>> \in DOMAIN all_successful_entries_map
    /\ <<"System Caches", <<"Library", "Caches">>>> \notin DOMAIN all_successful_entries_map

\* a thread of the kind k ("probe" or "act") takes a step
Steps(k) ==
    \E t \in (DOMAIN thread) \cap (DOMAIN thread') : t[1] = k /\ thread'[t] # thread[t]

\* C26: clean_my_mac, followed lock by lock, returns: it goes from Probe to
\* Act to Done, each once and in this order, the closures of each par_iter
\* run in its phase only, remove_path is called once for each path and never
\* again, some thread can always take a step until the function returns, and
\* when it has returned every closure has ended and every mutex is free
C26_RunsToCompletion ==
    /\ <>(phase = "done")
    /\ [][/\ phase' # phase =>
                <<phase, phase'>> \in {<<"filter", "probe">>, <<"probe", "act">>,
                                       <<"act", "done">>}
          /\ Steps("probe") => phase = "probe"
          /\ Steps("act") => phase = "act"]_vars
    /\ [](/\ \A t \in DOMAIN thread : thread[t].calls <= 1
          /\ phase # "done" => ENABLED LockNext
          /\ phase = "done" =>
                /\ \A t \in DOMAIN thread :
                      thread[t].ops = <<>> /\ (t[1] = "act" => thread[t].calls = 1)
                /\ Cardinality({t \in DOMAIN thread : t[1] = "act"}) = Len(task)
                /\ \A m \in Mutexes : held[m] = NoThread)

\* in the second pass a closure waits for a mutex another closure holds,
\* while a third has ended
C26_WorkerWaitsForMutex ==
    /\ phase = "act"
    /\ \E t, u, v \in DOMAIN thread :
          /\ t[1] = "act" /\ u[1] = "act" /\ v[1] = "act"
          /\ Todo(t).op = "lock" /\ held[Todo(t).m] = u
          /\ thread[v].ops = <<>> /\ thread[v].calls = 1

\* the paths a dry run of the orchestrator counts, from the filesystem the
\* command started in and the ignore list: the paths of the standard
\* categories that pass the filter and both measurements
EstimatedPaths ==
    UNION {{p \in {retain(cleaners_find_paths(fs0, standard_cleaners[k]), ignore)[j] :
                      j \in DOMAIN retain(cleaners_find_paths(fs0, standard_cleaners[k]),
                                          ignore)} :
               calculate_size(fs0, p).some /\ calculate_dir_size(fs0, p).ok} :
           k \in DOMAIN standard_cleaners}

\* the paths this run has counted into its Success table
CountedPaths == {e.path : e \in BagToSet(successful_entries)}

\* the paths this run has passed to remove_path
PathsPassedToDeletion ==
    {task[i].path : i \in {j \in DOMAIN task : task[j].st \in {"succ", "add", "done"}}}

\* C27: when a run of the orchestrator has returned, the paths a dry run has
\* counted, and the paths a live run has passed to deletion, are the same
\* set, fixed by the filesystem at the start and the ignore list: the
\* standard candidates that were measured, the large files being treated in
\* a live run as in a dry one
C27_LiveDeletesWhatDryRunCounts ==
    (engine = "orchestrator" /\ phase = "done") =>
        (IF dry_run THEN CountedPaths ELSE PathsPassedToDeletion) = EstimatedPaths

\* a live run has removed the large file ~/Downloads/big, which a dry run on
\* the same filesystem does not count
C27_LargeFileDeletedUncounted ==
    /\ engine = "orchestrator" /\ ~dry_run /\ phase = "done"
    /\ HOME \o <<"Downloads", "big">> \in PathsPassedToDeletion \cap removed
    /\ HOME \o <<"Downloads", "big">> \notin EstimatedPaths
    /\ EstimatedPaths \subseteq PathsPassedToDeletion

\* the workers whose candidate is a Probe Result of the present batch
Handed == {i \in DOMAIN task : task[i].st \notin {"probe", "out", "empty"}}

\* the candidates of workers i and j overlap: the object of one is the
\* object of the other or lies below it
Overlap(i, j) == starts_with(Object(task[j].path), Object(task[i].path))

\* C28: the Probe Results of one batch are pairwise independent subtrees: no
\* two workers hold the same object, under whichever spelling, and no
\* worker's object lies below another's
C28_ProbeResultsIndependent ==
    Cleanup => \A i \in Handed : \A j \in Handed \ {i} : ~Overlap(i, j)

\* two workers of one live batch have both gone through the second pass for
\* the one object /private/tmp/T or /private/var/folders, and its bytes are
\* in total_freed twice
C28_SameObjectTwice ==
    /\ Cleanup /\ ~dry_run
    /\ \E i \in Handed : \E j \in Handed \ {i} :
          /\ Object(task[i].path) = Object(task[j].path)
          /\ task[i].st = "done" /\ task[j].st = "done"
          /\ task[i].size > 0
          /\ total_freed >= task[i].size + task[j].size

\* the base directories of the uninstaller's templates and scans
UninstallBases ==
    {<<"Applications">>, <<"Library", "Application Support">>,
     HOME \o <<"Library", "Caches">>, <<"usr", "local", "bin">>, <<"etc">>,
     <<"opt", "homebrew", "Cellar">>, <<"usr", "local", "Cellar">>}
    \cup {launch_dirs[k] : k \in DOMAIN launch_dirs}
    \cup {receipt_dirs[k] : k \in DOMAIN receipt_dirs}

\* the launch agents and package receipts on the disk the command started in
AgentsAndReceipts ==
    UNION {entries(fs0, launch_dirs[k]) : k \in DOMAIN launch_dirs}
    \cup UNION {entries(fs0, receipt_dirs[k]) : k \in DOMAIN receipt_dirs}

\* the paths the uninstaller at work may delete
UninstallPaths == {task[i].path : i \in DOMAIN task}

\* C29: whatever the target name, every path an uninstaller may delete lies
\* properly below a base directory and its last component contains the name;
\* no base directory is removed, and the agents and receipts are never all
\* selected
C29_UninstallStaysBelowBases ==
    engine = "uninstall" =>
        /\ \A p \in UninstallPaths :
              \E base \in UninstallBases :
                 /\ starts_with(p, base) /\ Len(p) > Len(base)
                 /\ contains(to_lowercase(p[Len(p)]), to_lowercase(uninstall_name))
        /\ removed \cap UninstallBases = {}
        /\ ~(AgentsAndReceipts \subseteq UninstallPaths)

\* uninstall "" has removed the base directories /etc and ~/Library/Caches
\* themselves, with a launch agent that has nothing to do with any name
C29_EmptyNameRemovesBases ==
    /\ engine = "uninstall" /\ uninstall_name = "" /\ ~dry_run /\ phase = "done"
    /\ {<<"etc">>, HOME \o <<"Library", "Caches">>,
        <<"Library", "LaunchAgents", "com.bar.plist">>} \subseteq removed

\* the pattern is empty or consists of spaces only
Blank(s) == \A i \in 1..Len(s) : SubSeq(s, i, i) = " "

\* the ignore list without its blank patterns
NonBlank(ign) == SelectSeq(ign, LAMBDA s : ~Blank(s))

\* the paths of a sequence of paths or of workers
PathsOf(ps) == {ps[k] : k \in DOMAIN ps}
TaskPaths(ts) == {ts[i].path : i \in DOMAIN ts}

\* C30: a blank pattern in the ignore list excludes no candidate: the
\* candidates a filter hands to Probe are those the list without its blank
\* patterns lets through, in the canonical-prefix filter of cleaner.rs and in
\* the substring filter of cleaners/
C30_BlankPatternExcludesNothing ==
    [][/\ (engine = "cleaner" /\ phase = "filter" /\ phase' = "run") =>
             TaskPaths(task') = {p \in PathsOf(find_paths(fs, cleaners[ci])) :
                                    ~should_ignore(fs, p, NonBlank(ignore))}
       /\ (engine = "orchestrator" /\ phase = "filter" /\ phase' = "probe") =>
             TaskPaths(task') = PathsOf(retain(AllPaths(1), NonBlank(ignore)))]_vars

\* a run with a blank pattern as its whole ignore list has ended: candidates
\* were found and not one of them has reached Probe
C30_BlankPatternExcludesAll ==
    /\ Cleanup /\ phase = "done"
    /\ Len(ignore) = 1 /\ Blank(ignore[1])
    /\ candidates # <<>>
    /\ task = <<>> /\ removed = {} /\ total_freed = 0
    /\ skipped_during_size_check = EmptyBag /\ failed_entries = EmptyBag

====
